---- MODULE Spec2Model ----
(***************************************************************************)
(* A model of the job-enrichment pipeline: the text normaliser, the        *)
(* generative backend client with its retry loop, the JSON repair parser,  *)
(* the taxonomy resolver, the industry classifier and JobExtractor's       *)
(* process_job, which sequences them for one record.                       *)
(*                                                                         *)
(* Texts are TLA+ strings read one character at a time, so the regular     *)
(* expressions, the strict JSON grammar and the Python literal grammar are *)
(* computed the way the source computes them.                              *)
(***************************************************************************)
EXTENDS Integers, Sequences, FiniteSets, TLC

(***************************************************************************)
(* Characters and the str methods the source uses.                         *)
(***************************************************************************)
\* The character at index i, "" outside the text.
At(s, i) == IF 1 <= i /\ i <= Len(s) THEN SubSeq(s, i, i) ELSE ""

\* A local variable: Body, with its parameter bound to the value x.
With(x, Body(_)) == Body(x)

\* The first index of i..j that satisfies Test, j + 1 when none does.
FirstWhere(i, j, Test(_)) ==
  IF i > j THEN j + 1
  ELSE CHOOSE k \in i..(j + 1) :
         (IF k > j THEN TRUE ELSE Test(k)) /\ \A m \in i..(k - 1) : ~Test(m)

\* The last index of i..j that satisfies Test, i - 1 when none does.
LastWhere(i, j, Test(_)) ==
  IF i > j THEN i - 1
  ELSE CHOOSE k \in (i - 1)..j :
         (IF k < i THEN TRUE ELSE Test(k)) /\ \A m \in (k + 1)..j : ~Test(m)

\* The texts of a sequence, one behind the other.
RECURSIVE Concat(_)
Concat(parts) ==
  IF parts = << >> THEN ""
  ELSE IF Len(parts) = 1 THEN parts[1]
  ELSE Concat(SubSeq(parts, 1, Len(parts) \div 2))
         \o Concat(SubSeq(parts, Len(parts) \div 2 + 1, Len(parts)))

\* Python's str.isspace / regex \s, over the characters a TLA+ string can hold.
IsSpace(c) == c \in {" ", "\t", "\n", "\r", "\f"}

\* The characters str.splitlines breaks a line on.
IsLineBreak(c) == c \in {"\n", "\r", "\f"}

LStrip(s) == SubSeq(s, FirstWhere(1, Len(s), LAMBDA k : ~IsSpace(At(s, k))), Len(s))

RStrip(s) == SubSeq(s, 1, LastWhere(1, Len(s), LAMBDA k : ~IsSpace(At(s, k))))

Strip(s) == LStrip(RStrip(s))

StartsWithAt(s, i, p) == i + Len(p) - 1 <= Len(s) /\ SubSeq(s, i, i + Len(p) - 1) = p

StartsWith(s, p) == StartsWithAt(s, 1, p)

EndsWith(s, p) == Len(p) <= Len(s) /\ SubSeq(s, Len(s) - Len(p) + 1, Len(s)) = p

\* str.find(c, from i): the first index >= i holding c, 0 when there is none.
FindFrom(s, i, c) ==
  With(FirstWhere(i, Len(s), LAMBDA k : StartsWithAt(s, k, c)),
       LAMBDA hit : IF hit > Len(s) THEN 0 ELSE hit)

Find(s, c) == FindFrom(s, 1, c)

\* The text from i on with every old replaced by new, one occurrence at a time.
RECURSIVE ReplaceFrom(_, _, _, _)
ReplaceFrom(s, i, old, new) ==
  With(FindFrom(s, i, old), LAMBDA hit :
    IF hit = 0 THEN SubSeq(s, i, Len(s))
    ELSE SubSeq(s, i, hit - 1) \o new \o ReplaceFrom(s, hit + Len(old), old, new))

\* str.replace(old, new) for a non-empty old.
Replace(s, old, new) == ReplaceFrom(s, 1, old, new)

\* The last index <= i holding the character c, 0 when there is none.
RFindFrom(s, i, c) == LastWhere(1, i, LAMBDA k : At(s, k) = c)

\* str.rfind(c)
RFind(s, c) == RFindFrom(s, Len(s), c)

\* str.splitlines(): "\r\n" is one break, and a final break opens no empty line.
RECURSIVE SplitLinesFrom(_, _)
SplitLinesFrom(s, i) ==
  With(FirstWhere(i, Len(s), LAMBDA k : IsLineBreak(At(s, k))), LAMBDA brk :
    IF i > Len(s) THEN << >>
    ELSE IF brk > Len(s) THEN << SubSeq(s, i, Len(s)) >>
    ELSE << SubSeq(s, i, brk - 1) >>
           \o SplitLinesFrom(s, IF At(s, brk) = "\r" /\ At(s, brk + 1) = "\n"
                                THEN brk + 2 ELSE brk + 1))

SplitLines(s) == SplitLinesFrom(s, 1)

\* sep.join(parts)
RECURSIVE Join(_, _)
Join(sep, parts) ==
  IF parts = << >> THEN ""
  ELSE IF Len(parts) = 1 THEN parts[1]
  ELSE Join(sep, SubSeq(parts, 1, Len(parts) \div 2)) \o sep
         \o Join(sep, SubSeq(parts, Len(parts) \div 2 + 1, Len(parts)))

\* The end of the run of whitespace that starts at i: the first index >= i that
\* holds no whitespace (Len(s) + 1 when the run reaches the end).
SpaceRunEnd(s, i) == FirstWhere(i, Len(s), LAMBDA k : ~IsSpace(At(s, k)))

\* The end of the line that holds index i: the index of the next "\n" at or
\* after i, Len(s) + 1 when there is none (regex '.' stops at "\n" only).
LineEnd(s, i) == FirstWhere(i, Len(s), LAMBDA k : At(s, k) = "\n")

(***************************************************************************)
(* clean_job_description                                                   *)
(***************************************************************************)
\* The last "\n" of the whitespace run that starts at i, last when it holds
\* none.
LastNewlineInRun(s, i, last) ==
  With(LastWhere(i, SpaceRunEnd(s, i) - 1, LAMBDA k : At(s, k) = "\n"),
       LAMBDA hit : IF hit < i THEN last ELSE hit)

\* re.sub(r'\n\s*\n+', '\n\n', s): a "\n", then whitespace up to the last "\n"
\* of the run behind it, becomes one blank line.
RECURSIVE CollapseBlankLines(_, _)
CollapseBlankLines(s, i) ==
  With(FirstWhere(i, Len(s),
                  LAMBDA k : At(s, k) = "\n" /\ LastNewlineInRun(s, k + 1, 0) # 0),
       LAMBDA hit :
    IF hit > Len(s) THEN SubSeq(s, i, Len(s))
    ELSE SubSeq(s, i, hit - 1) \o "\n\n"
           \o CollapseBlankLines(s, LastNewlineInRun(s, hit + 1, 0) + 1))

SpacesEnd(s, i) == FirstWhere(i, Len(s), LAMBDA k : At(s, k) # " ")

\* re.sub(r' {2,}', ' ', s)
RECURSIVE CollapseSpaces(_, _)
CollapseSpaces(s, i) ==
  With(FirstWhere(i, Len(s), LAMBDA k : At(s, k) = " " /\ At(s, k + 1) = " "),
       LAMBDA hit :
    IF hit > Len(s) THEN SubSeq(s, i, Len(s))
    ELSE SubSeq(s, i, hit - 1) \o " " \o CollapseSpaces(s, SpacesEnd(s, hit)))

StripEach(lines) == [k \in 1..Len(lines) |-> Strip(lines[k])]

clean_job_description(text) ==
  LET t1 == Replace(Replace(Replace(text, "\t", " "), "\r\n", "\n"), "\r", "\n")
      t2 == CollapseBlankLines(t1, 1)
      t3 == Join("\n", StripEach(SplitLines(t2)))
      t4 == CollapseSpaces(t3, 1)
  IN  Strip(t4)

(***************************************************************************)
(* Python values.  Every value is a record [t, v]: t names the type, and   *)
(* v holds a string (str, int, bool, None), a sequence of values (list,    *)
(* tuple, set) or a sequence of [k, val] items in insertion order (dict).  *)
(***************************************************************************)
PyNone == [t |-> "none", v |-> "null"]

PyBool(b) == [t |-> "bool", v |-> b]

PyStr(x) == [t |-> "str", v |-> x]

PyInt(digits) == [t |-> "int", v |-> digits]

PyList(items) == [t |-> "list", v |-> items]

PyTuple(items) == [t |-> "tuple", v |-> items]

PySet(items) == [t |-> "set", v |-> items]

PyDict(items) == [t |-> "dict", v |-> items]

EmptyDict == PyDict(<< >>)

EmptyList == PyList(<< >>)

IsDict(x) == x.t = "dict"

IsStr(x) == x.t = "str"

\* key in d, for a dict d.
HasKey(d, key) == \E n \in 1..Len(d.v) : d.v[n].k = key

\* d.get(key, default), for a dict d.
DictGet(d, key, default) ==
  IF HasKey(d, key)
  THEN d.v[CHOOSE n \in 1..Len(d.v) : d.v[n].k = key].val
  ELSE default

\* d[key] = val on the items of a dict: a key already there keeps its place.
DictPut(items, key, val) ==
  IF \E n \in 1..Len(items) : items[n].k = key
  THEN [n \in 1..Len(items) |->
          IF items[n].k = key THEN [k |-> key, val |-> val] ELSE items[n]]
  ELSE Append(items, [k |-> key, val |-> val])

\* A parse that failed; un marks a construct this model does not compute
\* (an escape, a number form or a literal outside the modelled grammar).
Fail == [ok |-> FALSE, un |-> FALSE]

Unmodelled == [ok |-> FALSE, un |-> TRUE]

Parsed(val, next) == [ok |-> TRUE, v |-> val, i |-> next]

IsDigit(c) == c \in {"0", "1", "2", "3", "4", "5", "6", "7", "8", "9"}

\* A character below 0x20, which a strict JSON string may not hold.
IsControl(c) == c \in {"\t", "\n", "\r", "\f"}

\* The first index >= i that holds no digit.
DigitsEnd(s, i) == FirstWhere(i, Len(s), LAMBDA k : ~IsDigit(At(s, k)))

\* bool(x)
Truthy(x) ==
  IF x.t = "none" THEN FALSE
  ELSE IF x.t = "bool" THEN x.v = "true"
  ELSE IF x.t = "int" THEN x.v # "0"
  ELSE IF x.t = "str" THEN x.v # ""
  ELSE x.v # << >>

\* A dict item with a str key.
KV(key, val) == [k |-> PyStr(key), val |-> val]

\* The keys of a dict, in insertion order.
Keys(d) == [n \in 1..Len(d.v) |-> d.v[n].k]

\* The characters of a str, each a str, as iterating it yields them.
Chars(x) == [n \in 1..Len(x.v) |-> PyStr(At(x.v, n))]

\* repr(x) for a str: single quotes, unless the text holds a single quote and
\* no double quote.
ReprChar(c, q) ==
  IF c = "\\" THEN "\\\\"
  ELSE IF c = "\n" THEN "\\n"
  ELSE IF c = "\t" THEN "\\t"
  ELSE IF c = "\r" THEN "\\r"
  ELSE IF c = "\f" THEN "\\x0c"
  ELSE IF c = q THEN "\\" \o c
  ELSE c

ReprBody(s, q) == Concat([n \in 1..Len(s) |-> ReprChar(At(s, n), q)])

ReprStr(s) ==
  IF Find(s, "'") # 0 /\ Find(s, "\"") = 0
  THEN "\"" \o ReprBody(s, "\"") \o "\""
  ELSE "'" \o ReprBody(s, "'") \o "'"

\* repr(x)
RECURSIVE Repr(_)
Repr(x) ==
  LET parts == [n \in 1..Len(x.v) |-> Repr(x.v[n])]
      items == [n \in 1..Len(x.v) |-> Repr(x.v[n].k) \o ": " \o Repr(x.v[n].val)]
  IN  IF x.t = "none" THEN "None"
      ELSE IF x.t = "bool" THEN (IF x.v = "true" THEN "True" ELSE "False")
      ELSE IF x.t = "int" THEN x.v
      ELSE IF x.t = "str" THEN ReprStr(x.v)
      ELSE IF x.t = "list" THEN "[" \o Join(", ", parts) \o "]"
      ELSE IF x.t = "tuple"
           THEN "(" \o Join(", ", parts) \o (IF Len(x.v) = 1 THEN ",)" ELSE ")")
      ELSE IF x.t = "set"
           THEN (IF x.v = << >> THEN "set()" ELSE "{" \o Join(", ", parts) \o "}")
      ELSE "{" \o Join(", ", items) \o "}"

\* str(x), which is also what an f-string puts for {x}.
Str(x) == IF x.t = "str" THEN x.v ELSE Repr(x)

\* Whether json.dumps(x) returns: it raises TypeError on a set and on a dict
\* key that is not a str, an int, a bool or None.
RECURSIVE JsonDumpsOk(_)
JsonDumpsOk(x) ==
  IF x.t = "set" THEN FALSE
  ELSE IF x.t \in {"list", "tuple"} THEN \A n \in 1..Len(x.v) : JsonDumpsOk(x.v[n])
  ELSE IF x.t = "dict"
       THEN \A n \in 1..Len(x.v) :
              x.v[n].k.t \in {"str", "int", "bool", "none"} /\ JsonDumpsOk(x.v[n].val)
  ELSE TRUE

(***************************************************************************)
(* json.loads: the strict JSON grammar of Python's json module.            *)
(***************************************************************************)
IsJsonWs(c) == c \in {" ", "\t", "\n", "\r"}

\* The first index >= i that holds no JSON whitespace.
JsonSkipWs(s, i) == FirstWhere(i, Len(s), LAMBDA k : ~IsJsonWs(At(s, k)))

\* scanstring: s[i] is the first character behind the opening quote.  The
\* text is read one run of plain characters at a time, up to the quote, the
\* backslash or the control character that ends the run.
RECURSIVE JsonString(_, _, _)
JsonString(s, i, acc) ==
  With(FirstWhere(i, Len(s),
                  LAMBDA k : At(s, k) \in {"\"", "\\"} \/ IsControl(At(s, k))),
       LAMBDA stop :
  LET c    == At(s, stop)
      e    == At(s, stop + 1)
      run  == acc \o SubSeq(s, i, stop - 1)
  IN  IF stop > Len(s) THEN Fail
      ELSE IF c = "\"" THEN Parsed(PyStr(run), stop + 1)
      ELSE IF c = "\\"
           THEN IF e \in {"\"", "\\", "/"} THEN JsonString(s, stop + 2, run \o e)
                ELSE IF e = "n" THEN JsonString(s, stop + 2, run \o "\n")
                ELSE IF e = "t" THEN JsonString(s, stop + 2, run \o "\t")
                ELSE IF e = "r" THEN JsonString(s, stop + 2, run \o "\r")
                ELSE IF e = "f" THEN JsonString(s, stop + 2, run \o "\f")
                ELSE IF e \in {"b", "u"} THEN Unmodelled
                ELSE Fail
      ELSE Fail)

\* NUMBER_RE: -?(0|[1-9]\d*) with an optional fraction and exponent; the
\* fraction and the exponent are outside the modelled values.
JsonNumber(s, i) ==
  With(At(s, i) = "-", LAMBDA neg :
  With(IF neg THEN i + 1 ELSE i, LAMBDA d :
  With(IF At(s, d) = "0" THEN d + 1 ELSE DigitsEnd(s, d), LAMBDA stop :
  With(SubSeq(s, d, stop - 1), LAMBDA text :
      IF ~IsDigit(At(s, d)) THEN (IF neg /\ At(s, d) = "I" THEN Unmodelled ELSE Fail)
      ELSE IF (At(s, stop) = "." /\ IsDigit(At(s, stop + 1)))
              \/ (At(s, stop) \in {"e", "E"}
                  /\ (IsDigit(At(s, stop + 1))
                      \/ (At(s, stop + 1) \in {"+", "-"} /\ IsDigit(At(s, stop + 2)))))
           THEN Unmodelled
      ELSE Parsed(PyInt(IF neg /\ text # "0" THEN "-" \o text ELSE text), stop)))))

RECURSIVE JsonValue(_, _)
RECURSIVE JsonMembers(_, _, _)
RECURSIVE JsonElements(_, _, _)

\* JSONObject's loop: s[i] is the first character of a key, behind its quote.
JsonMembers(s, i, items) ==
  With(JsonString(s, i, ""), LAMBDA key :
    IF ~key.ok THEN key
    ELSE With(JsonSkipWs(s, key.i), LAMBDA colon :
      IF At(s, colon) # ":" THEN Fail
      ELSE With(JsonValue(s, JsonSkipWs(s, colon + 1)), LAMBDA val :
        IF ~val.ok THEN val
        ELSE With(JsonSkipWs(s, val.i), LAMBDA after :
             With(DictPut(items, key.v, val.v), LAMBDA put :
          IF At(s, after) = "}" THEN Parsed(PyDict(put), after + 1)
          ELSE IF At(s, after) # "," THEN Fail
          ELSE With(JsonSkipWs(s, after + 1), LAMBDA nextk :
            IF At(s, nextk) # "\"" THEN Fail
            ELSE JsonMembers(s, nextk + 1, put)))))))

\* JSONArray's loop: s[i] is the first character of an element.
JsonElements(s, i, items) ==
  With(JsonValue(s, i), LAMBDA val :
    IF ~val.ok THEN val
    ELSE With(JsonSkipWs(s, val.i), LAMBDA after :
      IF At(s, after) = "]" THEN Parsed(PyList(Append(items, val.v)), after + 1)
      ELSE IF At(s, after) # "," THEN Fail
      ELSE JsonElements(s, JsonSkipWs(s, after + 1), Append(items, val.v))))

\* scan_once
JsonValue(s, i) ==
  With(At(s, i), LAMBDA c :
  With(JsonSkipWs(s, i + 1), LAMBDA first :
      IF c = "\"" THEN JsonString(s, i + 1, "")
      ELSE IF c = "{"
           THEN IF At(s, first) = "}" THEN Parsed(EmptyDict, first + 1)
                ELSE IF At(s, first) # "\"" THEN Fail
                ELSE JsonMembers(s, first + 1, << >>)
      ELSE IF c = "["
           THEN IF At(s, first) = "]" THEN Parsed(EmptyList, first + 1)
                ELSE JsonElements(s, first, << >>)
      ELSE IF StartsWithAt(s, i, "null") THEN Parsed(PyNone, i + 4)
      ELSE IF StartsWithAt(s, i, "true") THEN Parsed(PyBool("true"), i + 4)
      ELSE IF StartsWithAt(s, i, "false") THEN Parsed(PyBool("false"), i + 5)
      ELSE IF StartsWithAt(s, i, "NaN") \/ StartsWithAt(s, i, "Infinity") THEN Unmodelled
      ELSE JsonNumber(s, i)))

\* json.loads(s): a value with nothing but whitespace around it.  The result
\* is [ok |-> TRUE, v |-> value], or a failure (JSONDecodeError).
json_loads(s) ==
  With(JsonValue(s, JsonSkipWs(s, 1)), LAMBDA val :
    IF ~val.ok THEN val
    ELSE IF JsonSkipWs(s, val.i) # Len(s) + 1 THEN Fail
    ELSE val)

(***************************************************************************)
(* ast.literal_eval: the Python literals it evaluates.  Strings (single,   *)
(* double and triple quoted, adjacent ones concatenated), integers, True,  *)
(* False, None, tuples, lists, sets and dicts; every other expression      *)
(* raises.  Floats, complex numbers, bytes, raw strings, numeric escapes   *)
(* and bool keys are outside the modelled values.                          *)
(***************************************************************************)
Letters ==
  {"a", "b", "c", "d", "e", "f", "g", "h", "i", "j", "k", "l", "m",
   "n", "o", "p", "q", "r", "s", "t", "u", "v", "w", "x", "y", "z",
   "A", "B", "C", "D", "E", "F", "G", "H", "I", "J", "K", "L", "M",
   "N", "O", "P", "Q", "R", "S", "T", "U", "V", "W", "X", "Y", "Z"}

IsIdStart(c) == c \in Letters \/ c = "_"

IsIdChar(c) == IsIdStart(c) \/ IsDigit(c)

IsQuote(c) == c \in {"\"", "'"}

StringPrefixes ==
  {"r", "u", "b", "f", "R", "U", "B", "F",
   "br", "bR", "Br", "BR", "rb", "rB", "Rb", "RB",
   "fr", "fR", "Fr", "FR", "rf", "rF", "Rf", "RF"}

\* The first index >= i that holds no identifier character.
IdEnd(s, i) == FirstWhere(i, Len(s), LAMBDA k : ~IsIdChar(At(s, k)))

\* The end of the physical line that holds index i.
PyLineEnd(s, i) == FirstWhere(i, Len(s), LAMBDA k : At(s, k) \in {"\n", "\r"})

\* The next token at or after i: whitespace, comments and continued lines (a
\* backslash before the line end) are skipped, and line ends too inside
\* brackets (br).
RECURSIVE PySkip(_, _, _)
PySkip(s, i, br) ==
  With(FirstWhere(i, Len(s),
                  LAMBDA k : ~(At(s, k) \in {" ", "\t", "\f"}
                               \/ (br /\ At(s, k) \in {"\n", "\r"}))),
       LAMBDA j :
    IF At(s, j) = "#" THEN PySkip(s, PyLineEnd(s, j), br)
    ELSE IF At(s, j) = "\\" /\ At(s, j + 1) = "\n" /\ j + 2 <= Len(s)
         THEN PySkip(s, j + 2, br)
    ELSE j)

\* The character an escape stands for: "" for the continuation of a line,
\* "?" for an escape that is kept as it is written.
PyEscape(e) ==
  IF e \in {"\\", "'", "\""} THEN e
  ELSE IF e = "n" THEN "\n"
  ELSE IF e = "t" THEN "\t"
  ELSE IF e = "r" THEN "\r"
  ELSE IF e = "f" THEN "\f"
  ELSE IF e = "\n" THEN ""
  ELSE "?"

\* The body of a string literal up to its closing quote q (one quote, or
\* three for a triple-quoted string, which may span lines).
RECURSIVE PyStringBody(_, _, _, _)
PyStringBody(s, i, q, acc) ==
  With(FirstWhere(i, Len(s),
                  LAMBDA k : \/ StartsWithAt(s, k, q)
                             \/ At(s, k) = "\\"
                             \/ (At(s, k) \in {"\n", "\r"} /\ Len(q) = 1)),
       LAMBDA stop :
  With(At(s, stop + 1), LAMBDA e :
  With(acc \o SubSeq(s, i, stop - 1), LAMBDA run :
    IF stop > Len(s) THEN Fail
    ELSE IF StartsWithAt(s, stop, q) THEN Parsed(PyStr(run), stop + Len(q))
    ELSE IF At(s, stop) # "\\" THEN Fail
    ELSE IF e = "" THEN Fail
    ELSE IF e \in {"a", "b", "v", "x", "N", "u", "U", "\r"} \/ IsDigit(e) THEN Unmodelled
    ELSE PyStringBody(s, stop + 2, q,
                      run \o (IF PyEscape(e) = "?" THEN "\\" \o e ELSE PyEscape(e))))))

\* One string literal: s[i] is its opening quote.
PyString(s, i) ==
  With(IF StartsWithAt(s, i, At(s, i) \o At(s, i) \o At(s, i))
       THEN At(s, i) \o At(s, i) \o At(s, i) ELSE At(s, i),
       LAMBDA q : PyStringBody(s, i + Len(q), q, ""))

\* Adjacent string literals are one string: acc is the value so far, i the
\* index behind the last literal.
RECURSIVE PyStrings(_, _, _, _)
PyStrings(s, i, br, acc) ==
  With(PySkip(s, i, br), LAMBDA j :
    IF IsQuote(At(s, j))
    THEN With(PyString(s, j), LAMBDA more :
           IF more.ok THEN PyStrings(s, more.i, br, acc \o more.v.v) ELSE more)
    ELSE With(IdEnd(s, j), LAMBDA stop :
           IF IsIdStart(At(s, j)) /\ IsQuote(At(s, stop))
              /\ SubSeq(s, j, stop - 1) \in StringPrefixes
           THEN Unmodelled
           ELSE Parsed(PyStr(acc), i)))

\* The end of a decimal literal: digits, single underscores between them.
PyDigitsEnd(s, i) ==
  FirstWhere(i, Len(s),
             LAMBDA k : ~IsDigit(At(s, k)) /\ ~(At(s, k) = "_" /\ IsDigit(At(s, k + 1))))

\* The digits without their leading zeros, the last digit kept.
StripZeros(d) ==
  IF d = "" THEN ""
  ELSE SubSeq(d, FirstWhere(1, Len(d) - 1, LAMBDA k : At(d, k) # "0"), Len(d))

\* A decimal integer at i, with the sign read before it.
PyNumber(s, i, sign, br) ==
  With(PyDigitsEnd(s, i), LAMBDA stop :
  With(Replace(SubSeq(s, i, stop - 1), "_", ""), LAMBDA digits :
  With(StripZeros(digits), LAMBDA value :
    IF IsIdChar(At(s, stop)) \/ At(s, stop) = "." THEN Unmodelled
    ELSE IF Head(digits) = "0" /\ value # "0" THEN Fail
    ELSE IF At(s, PySkip(s, stop, br)) \in {"+", "-"} THEN Unmodelled
    ELSE Parsed(PyInt(IF sign = "-" /\ value # "0" THEN "-" \o value ELSE value), stop))))

\* A name at i: only the three constants are literals.
PyName(s, i) ==
  With(IdEnd(s, i), LAMBDA stop :
  With(SubSeq(s, i, stop - 1), LAMBDA name :
    IF IsQuote(At(s, stop)) /\ name \in StringPrefixes THEN Unmodelled
    ELSE IF name = "set" THEN Unmodelled
    ELSE IF name = "True" THEN Parsed(PyBool("true"), stop)
    ELSE IF name = "False" THEN Parsed(PyBool("false"), stop)
    ELSE IF name = "None" THEN Parsed(PyNone, stop)
    ELSE Fail))

RECURSIVE Hashable(_)
Hashable(x) ==
  IF x.t \in {"list", "dict", "set"} THEN FALSE
  ELSE IF x.t = "tuple" THEN \A n \in 1..Len(x.v) : Hashable(x.v[n])
  ELSE TRUE

RECURSIVE HoldsBool(_)
HoldsBool(x) ==
  IF x.t = "bool" THEN TRUE
  ELSE IF x.t = "tuple" THEN \E n \in 1..Len(x.v) : HoldsBool(x.v[n])
  ELSE FALSE

\* set.add on the elements of a set, kept in first-insertion order.
SetAdd(items, x) == IF \E n \in 1..Len(items) : items[n] = x THEN items ELSE Append(items, x)

\* The result of a parse with its value wrapped: Wrap is PyTuple, PyList, ...
Wrapped(parse, Wrap(_)) == IF parse.ok THEN Parsed(Wrap(parse.v), parse.i) ELSE parse

RECURSIVE PyValue(_, _, _)
RECURSIVE PyItems(_, _, _, _)
RECURSIVE PySetItems(_, _, _)
RECURSIVE PyDictItems(_, _, _)

\* Comma-separated values up to the closing bracket, a trailing comma allowed:
\* s[i] is the first token behind the opening bracket or behind a comma.
PyItems(s, i, close, items) ==
  IF At(s, i) = close THEN Parsed(items, i + 1)
  ELSE With(PyValue(s, i, TRUE), LAMBDA val :
    IF ~val.ok THEN val
    ELSE With(PySkip(s, val.i, TRUE), LAMBDA after :
      IF At(s, after) = close THEN Parsed(Append(items, val.v), after + 1)
      ELSE IF At(s, after) = ","
           THEN PyItems(s, PySkip(s, after + 1, TRUE), close, Append(items, val.v))
      ELSE Fail))

\* The elements of a set display behind its first element.
PySetItems(s, i, items) ==
  IF At(s, i) = "}" THEN Parsed(PySet(items), i + 1)
  ELSE With(PyValue(s, i, TRUE), LAMBDA val :
    IF ~val.ok THEN val
    ELSE IF ~Hashable(val.v) THEN Fail
    ELSE IF HoldsBool(val.v) THEN Unmodelled
    ELSE With(PySkip(s, val.i, TRUE), LAMBDA after :
         With(SetAdd(items, val.v), LAMBDA added :
      IF At(s, after) = "}" THEN Parsed(PySet(added), after + 1)
      ELSE IF At(s, after) = "," THEN PySetItems(s, PySkip(s, after + 1, TRUE), added)
      ELSE Fail)))

\* The items of a dict display: s[i] is the first token of a key.
PyDictItems(s, i, items) ==
  IF At(s, i) = "}" THEN Parsed(PyDict(items), i + 1)
  ELSE With(PyValue(s, i, TRUE), LAMBDA key :
    IF ~key.ok THEN key
    ELSE With(PySkip(s, key.i, TRUE), LAMBDA colon :
      IF At(s, colon) # ":" THEN Fail
      ELSE With(PyValue(s, PySkip(s, colon + 1, TRUE), TRUE), LAMBDA val :
        IF ~val.ok THEN val
        ELSE With(PySkip(s, val.i, TRUE), LAMBDA after :
             With(DictPut(items, key.v, val.v), LAMBDA put :
          IF At(s, after) \notin {"}", ","} THEN Fail
          ELSE IF ~Hashable(key.v) THEN Fail
          ELSE IF HoldsBool(key.v) THEN Unmodelled
          ELSE IF At(s, after) = "}" THEN Parsed(PyDict(put), after + 1)
          ELSE PyDictItems(s, PySkip(s, after + 1, TRUE), put))))))

\* A display behind its opening bracket c: inner is its first token, first
\* the parse of its first element.
PyDisplay(s, c, inner, first) ==
  IF ~first.ok THEN first
  ELSE With(PySkip(s, first.i, TRUE), LAMBDA after :
    IF c = "("
    THEN IF At(s, after) = ")" THEN Parsed(first.v, after + 1)
         ELSE IF At(s, after) # "," THEN Fail
         ELSE Wrapped(PyItems(s, PySkip(s, after + 1, TRUE), ")", << first.v >>), PyTuple)
    ELSE IF At(s, after) = ":" THEN PyDictItems(s, inner, << >>)
    ELSE PySetItems(s, inner, << >>))

\* One expression that is a literal: s[i] is its first token.
PyValue(s, i, br) ==
  With(At(s, i), LAMBDA c :
  With(PySkip(s, i + 1, c \in {"(", "[", "{"} \/ br), LAMBDA inner :
    IF IsQuote(c)
    THEN With(PyString(s, i), LAMBDA str :
           IF str.ok THEN PyStrings(s, str.i, br, str.v.v) ELSE str)
    ELSE IF IsDigit(c) \/ (c \in {"-", "+"} /\ IsDigit(At(s, inner)))
         THEN PyNumber(s, IF IsDigit(c) THEN i ELSE inner, IF IsDigit(c) THEN "+" ELSE c, br)
    ELSE IF c \in {"-", "+"}
         THEN (IF At(s, inner) \in {"(", "."} THEN Unmodelled ELSE Fail)
    ELSE IF IsIdStart(c) THEN PyName(s, i)
    ELSE IF c = "[" THEN Wrapped(PyItems(s, inner, "]", << >>), PyList)
    ELSE IF c = "(" /\ At(s, inner) = ")" THEN Parsed(PyTuple(<< >>), inner + 1)
    ELSE IF c = "{" /\ At(s, inner) = "}" THEN Parsed(EmptyDict, inner + 1)
    ELSE IF c \in {"(", "{"} THEN PyDisplay(s, c, inner, PyValue(s, inner, TRUE))
    ELSE IF c = "." THEN Unmodelled
    ELSE Fail))

\* The values of a tuple written without parentheses, behind its first comma:
\* the expression ends with the line.
RECURSIVE PyBareTuple(_, _, _)
PyBareTuple(s, i, items) ==
  IF i > Len(s) \/ At(s, i) \in {"\n", "\r"} THEN Parsed(PyTuple(items), i)
  ELSE With(PyValue(s, i, FALSE), LAMBDA val :
    IF ~val.ok THEN val
    ELSE With(PySkip(s, val.i, FALSE), LAMBDA after :
      IF At(s, after) = ","
      THEN PyBareTuple(s, PySkip(s, after + 1, FALSE), Append(items, val.v))
      ELSE Parsed(PyTuple(Append(items, val.v)), after)))

\* The expression behind its first value: a comma makes it a bare tuple.
PyExpression(s, first) ==
  IF ~first.ok THEN first
  ELSE With(PySkip(s, first.i, FALSE), LAMBDA after :
    IF At(s, after) = ","
    THEN PyBareTuple(s, PySkip(s, after + 1, FALSE), << first.v >>)
    ELSE first)

\* ast.literal_eval(s), for a text whose first character opens a literal.
\* The result is [ok |-> TRUE, v |-> value], or a failure (an exception).
literal_eval(s) ==
  IF s = "" \/ IsSpace(At(s, 1)) \/ At(s, 1) = "#" THEN Unmodelled
  ELSE With(PyExpression(s, PyValue(s, 1, FALSE)), LAMBDA whole :
    IF ~whole.ok THEN whole
    ELSE IF PySkip(s, whole.i, TRUE) # Len(s) + 1 THEN Fail
    ELSE whole)

(***************************************************************************)
(* safe_json_parse                                                         *)
(***************************************************************************)
\* re.sub(r'(?<!:)//\s.*$', '', s, flags=re.MULTILINE): "//" not behind a
\* colon, one whitespace character, and the rest of the line behind it.
RECURSIVE StripComments(_, _)
StripComments(s, i) ==
  With(FirstWhere(i, Len(s),
                  LAMBDA k : /\ StartsWithAt(s, k, "//")
                             /\ At(s, k - 1) # ":"
                             /\ IsSpace(At(s, k + 2))),
       LAMBDA hit :
    IF hit > Len(s) THEN SubSeq(s, i, Len(s))
    ELSE SubSeq(s, i, hit - 1) \o StripComments(s, LineEnd(s, hit + 3)))

\* The index of the first close that stands at or after i on the line of i,
\* 0 when there is none.
CloseOnLine(s, i, close) ==
  With(FirstWhere(i, Len(s), LAMBDA k : At(s, k) = "\n" \/ StartsWithAt(s, k, close)),
       LAMBDA k : IF StartsWithAt(s, k, close) THEN k ELSE 0)

\* The end of the match of \(".*?"\) at i, 0 when it does not match there.
QuotedParenEnd(s, i) ==
  IF At(s, i) = "(" /\ At(s, i + 1) = "\""
  THEN With(CloseOnLine(s, i + 2, "\")"), LAMBDA k : IF k = 0 THEN 0 ELSE k + 1)
  ELSE 0

\* The end of the match of \s*\(.*?\) at i, 0 when it does not match there.
ParenEnd(s, i) ==
  With(SpaceRunEnd(s, i), LAMBDA open :
    IF At(s, open) = "(" THEN CloseOnLine(s, open + 1, ")") ELSE 0)

\* The end of the match of \(".*?"\)|\s*\(.*?\) at i, 0 when neither matches.
EitherParenEnd(s, i) ==
  With(QuotedParenEnd(s, i), LAMBDA quoted : IF quoted # 0 THEN quoted ELSE ParenEnd(s, i))

\* re.sub(r'\(".*?"\)|\s*\(.*?\)', '', s)
RECURSIVE StripParens(_, _)
StripParens(s, i) ==
  With(FirstWhere(i, Len(s), LAMBDA k : EitherParenEnd(s, k) # 0), LAMBDA hit :
    IF hit > Len(s) THEN SubSeq(s, i, Len(s))
    ELSE SubSeq(s, i, hit - 1) \o StripParens(s, EitherParenEnd(s, hit) + 1))

\* re.sub(r'\s*\(.*?\)', '', s)
RECURSIVE StripPlainParens(_, _)
StripPlainParens(s, i) ==
  With(FirstWhere(i, Len(s), LAMBDA k : ParenEnd(s, k) # 0), LAMBDA hit :
    IF hit > Len(s) THEN SubSeq(s, i, Len(s))
    ELSE SubSeq(s, i, hit - 1) \o StripPlainParens(s, ParenEnd(s, hit) + 1))

\* The end of the match of <.*?> at i, 0 when it does not match there.
TagEnd(s, i) == IF At(s, i) = "<" THEN CloseOnLine(s, i + 1, ">") ELSE 0

\* re.sub(r'<.*?>', '', s)
RECURSIVE StripTags(_, _)
StripTags(s, i) ==
  With(FirstWhere(i, Len(s), LAMBDA k : TagEnd(s, k) # 0), LAMBDA hit :
    IF hit > Len(s) THEN SubSeq(s, i, Len(s))
    ELSE SubSeq(s, i, hit - 1) \o StripTags(s, TagEnd(s, hit) + 1))

\* re.sub(r',(\s*[}\]])', r'\1', s): a comma is dropped when only whitespace
\* stands between it and a closing bracket.
RECURSIVE StripTrailingCommas(_, _)
StripTrailingCommas(s, i) ==
  With(FirstWhere(i, Len(s),
                  LAMBDA k : /\ At(s, k) = ","
                             /\ At(s, SpaceRunEnd(s, k + 1)) \in {"}", "]"}),
       LAMBDA hit :
    IF hit > Len(s) THEN SubSeq(s, i, Len(s))
    ELSE With(SpaceRunEnd(s, hit + 1), LAMBDA close :
           SubSeq(s, i, hit - 1) \o SubSeq(s, hit + 1, close)
             \o StripTrailingCommas(s, close + 1)))

\* Step 0: the cleaned text.
CleanArtifacts(text) == StripTags(StripParens(StripComments(text, 1), 1), 1)

\* s[open .. close] when both are indexes and close stands behind open, else "".
Between(s, open, close) ==
  IF open # 0 /\ close > open THEN SubSeq(s, open, close) ELSE ""

\* Step 1: re.search(r'{.*}', s, re.DOTALL): the first "{" through the last
\* "}", "" when no "}" stands behind the first "{".
JsonBlock(s) == Between(s, Find(s, "{"), RFind(s, "}"))

\* Step 2: whether the reconstruction keeps a line.
LooksLikeJson(line) ==
  With(Strip(line), LAMBDA stripped :
    StartsWith(stripped, "\"")
    \/ At(stripped, Len(stripped)) \in {"}", "]", ",", "{", "["})

RECURSIVE KeptLines(_)
KeptLines(lines) ==
  IF lines = << >> THEN << >>
  ELSE IF ~LooksLikeJson(Head(lines)) THEN << >>
  ELSE << StripComments(StripPlainParens(Head(lines), 1), 1) >> \o KeptLines(Tail(lines))

\* Step 2: json_lines, for a cleaned text that holds a "{" at start_idx.
JsonLines(text_clean, start_idx) ==
  KeptLines(SplitLines(Strip(SubSeq(text_clean, start_idx, Len(text_clean)))))

CloseBrace(s) ==
  With(RStrip(s), LAMBDA stripped : IF EndsWith(stripped, "}") THEN s ELSE stripped \o "\n}")

\* Step 2: the reconstructed text.
Reconstructed(json_lines) == StripTrailingCommas(CloseBrace(Join("\n", json_lines)), 1)

PythonWords(s) == Replace(Replace(Replace(s, "true", "True"), "false", "False"), "null", "None")

\* A call that returned v, and a call that raised exc.  "Unmodelled" stands
\* for a text outside the grammar this model computes.
Returned(v) == [ok |-> TRUE, v |-> v]

Raised(exc) == [ok |-> FALSE, exc |-> exc]

\* Step 3, behind the strict parse of the reconstructed text.
ParseSafely(repaired, strict) ==
  IF strict.ok THEN Returned(strict.v)
  ELSE IF strict.un THEN Raised("Unmodelled")
  ELSE With(literal_eval(PythonWords(repaired)), LAMBDA literal :
    IF literal.ok THEN Returned(literal.v)
    ELSE IF literal.un THEN Raised("Unmodelled")
    ELSE Raised("SyntaxError"))

\* Steps 2 and 3.
Reconstruct(text_clean) ==
  With(Find(text_clean, "{"), LAMBDA start_idx :
    IF start_idx = 0 THEN Raised("ValueError")
    ELSE With(JsonLines(text_clean, start_idx), LAMBDA json_lines :
      IF json_lines = << >> THEN Raised("ValueError")
      ELSE With(Reconstructed(json_lines), LAMBDA repaired :
             ParseSafely(repaired, json_loads(repaired)))))

\* Step 1 and what follows it, for the block the search found ("" when it
\* found none).
ParseBlock(text_clean, block) ==
  With(IF block = "" THEN Fail ELSE json_loads(block), LAMBDA direct :
    IF direct.ok THEN Returned(direct.v)
    ELSE IF direct.un THEN Raised("Unmodelled")
    ELSE Reconstruct(text_clean))

safe_json_parse(text) ==
  With(CleanArtifacts(text), LAMBDA text_clean : ParseBlock(text_clean, JsonBlock(text_clean)))

(***************************************************************************)
(* The taxonomy resolver.  rapidfuzz's scorer and search are computed as   *)
(* the library defines them; a similarity score is the exact fraction      *)
(* num / den, compared without rounding.                                   *)
(***************************************************************************)
UpperCase == "ABCDEFGHIJKLMNOPQRSTUVWXYZ"

LowerCase == "abcdefghijklmnopqrstuvwxyz"

\* The printable ASCII characters in code point order: 32 to 95, and 97 to
\* 126 (a TLA+ string cannot hold the character 96).
AsciiLow == " !\"#$%&'()*+,-./0123456789:;<=>?@" \o UpperCase \o "[\\]^_"

AsciiHigh == LowerCase \o "{|}~"

CodePoint(c) ==
  IF c = "\t" THEN 9
  ELSE IF c = "\n" THEN 10
  ELSE IF c = "\f" THEN 12
  ELSE IF c = "\r" THEN 13
  ELSE With(Find(AsciiLow, c), LAMBDA low :
         IF low # 0 THEN 31 + low ELSE 96 + Find(AsciiHigh, c))

LowerChar(c) ==
  With(Find(UpperCase, c), LAMBDA upper : IF upper # 0 THEN At(LowerCase, upper) ELSE c)

\* str.lower()
Lower(s) == Concat([n \in 1..Len(s) |-> LowerChar(At(s, n))])

\* a < b for Python strings: code point order, a proper prefix first.
StrLess(a, b) ==
  With(FirstWhere(1, Len(a), LAMBDA k : At(a, k) # At(b, k)), LAMBDA diff :
    IF diff > Len(a) THEN Len(a) < Len(b)
    ELSE IF diff > Len(b) THEN FALSE
    ELSE CodePoint(At(a, diff)) < CodePoint(At(b, diff)))

\* str.split(): the maximal runs of characters that are not whitespace.
RECURSIVE SplitWords(_, _)
SplitWords(s, i) ==
  With(SpaceRunEnd(s, i), LAMBDA start :
    IF start > Len(s) THEN << >>
    ELSE With(FirstWhere(start, Len(s), LAMBDA k : IsSpace(At(s, k))), LAMBDA stop :
           << SubSeq(s, start, stop - 1) >> \o SplitWords(s, stop)))

RECURSIVE InsertSorted(_, _)
InsertSorted(sorted, w) ==
  IF sorted = << >> THEN << w >>
  ELSE IF StrLess(w, Head(sorted)) THEN << w >> \o sorted
  ELSE << Head(sorted) >> \o InsertSorted(Tail(sorted), w)

\* sorted(words)
RECURSIVE Sorted(_)
Sorted(words) ==
  IF words = << >> THEN << >>
  ELSE InsertSorted(Sorted(SubSeq(words, 1, Len(words) - 1)), words[Len(words)])

\* The largest number of a non-empty set.
MaxOf(S) == CHOOSE x \in S : \A y \in S : y <= x

\* The row of the longest-common-subsequence table behind the row prev, for
\* the character c of a.  A row holds the columns 0..Len(b) at the indices
\* 1..Len(b) + 1, and lcs(i, j) is the larger of lcs(i - 1, j) and of
\* lcs(i - 1, k - 1) + 1 over the k <= j at which b holds c.
LcsRow(prev, c, b) ==
  [j \in 1..(Len(b) + 1) |->
     MaxOf({prev[j]} \cup {prev[k] + 1 : k \in {k \in 1..(j - 1) : At(b, k) = c}})]

RECURSIVE LcsFrom(_, _, _, _)
LcsFrom(a, b, i, prev) ==
  IF i > Len(a) THEN prev[Len(b) + 1]
  ELSE LcsFrom(a, b, i + 1, LcsRow(prev, At(a, i), b))

\* The length of a longest common subsequence of a and b.
Lcs(a, b) == LcsFrom(a, b, 1, [j \in 1..(Len(b) + 1) |-> 0])

\* fuzz.ratio(a, b): 100 times the normalised Indel similarity,
\* 100 * (1 - (Len(a) + Len(b) - 2 * Lcs) / (Len(a) + Len(b))), and 100 for
\* two empty strings.
ratio(a, b) ==
  IF Len(a) + Len(b) = 0 THEN [num |-> 100, den |-> 1]
  ELSE [num |-> 200 * Lcs(a, b), den |-> Len(a) + Len(b)]

\* fuzz.token_sort_ratio(a, b): the ratio of the two strings with their words
\* sorted and joined by one space.
SortedWords(s) == Join(" ", Sorted(SplitWords(s, 1)))

token_sort_ratio(a, b) == ratio(SortedWords(a), SortedWords(b))

ScoreGreater(x, y) == x.num * y.den > y.num * x.den

\* best[1] > fuzzy_threshold
ScoreAbove(x, threshold) == x.num > threshold * x.den

\* best[1] >= fuzzy_threshold
ScoreAtLeast(x, threshold) == x.num >= threshold * x.den

\* process.extractOne(query, choices, scorer=fuzz.token_sort_ratio): the
\* first choice of the highest score, as [found, choice, score]; nothing is
\* found among no choices.
RECURSIVE ExtractFrom(_, _, _, _)
ExtractFrom(query, choices, n, best) ==
  IF n > Len(choices) THEN best
  ELSE With(token_sort_ratio(query, choices[n]), LAMBDA score :
         ExtractFrom(query, choices, n + 1,
                     IF ~best.found \/ ScoreGreater(score, best.score)
                     THEN [found |-> TRUE, choice |-> choices[n], score |-> score]
                     ELSE best))

extractOne(query, choices) ==
  ExtractFrom(query, choices, 1, [found |-> FALSE, choice |-> "", score |-> [num |-> 0, den |-> 1]])

\* skill_lookup.get(base_skill.lower(), {}).get("ID"), for a taxonomy held as
\* a dict from skill name to info dict.
SkillId(skill_lookup, base_skill) ==
  DictGet(DictGet(skill_lookup, PyStr(Lower(base_skill)), EmptyDict), PyStr("ID"), PyNone)

\* The keys of a dict, in insertion order, as strings.
KeyStrings(d) == [n \in 1..Len(d.v) |-> d.v[n].k.v]

\* The resolver without its exact-match branch.
map_skill_fuzzy_only(extracted_skill, synonym_to_skill, skill_lookup, all_synonyms, fuzzy_threshold) ==
  With(extractOne(Lower(Strip(extracted_skill)), all_synonyms), LAMBDA best :
    IF best.found /\ best.score.num >= fuzzy_threshold * best.score.den
    THEN With(DictGet(synonym_to_skill, PyStr(Lower(best.choice)), PyNone),
              LAMBDA base_skill :
           [mapped_to |-> base_skill, ID |-> SkillId(skill_lookup, base_skill.v),
            fuzzy |-> TRUE])
    ELSE [mapped_to |-> PyNone, ID |-> PyNone, fuzzy |-> TRUE])

\* The result has the returned mapping's two entries, and fuzzy tells whether
\* the call reached process.extractOne.
map_skill_with_synonyms_verbose(extracted_skill, synonym_to_skill, skill_lookup, all_synonyms, fuzzy_threshold) ==
  With(Lower(Strip(extracted_skill)), LAMBDA s_norm :
    IF HasKey(synonym_to_skill, PyStr(s_norm))
    THEN With(DictGet(synonym_to_skill, PyStr(s_norm), PyNone), LAMBDA base_skill :
           [mapped_to |-> base_skill, ID |-> SkillId(skill_lookup, base_skill.v),
            fuzzy |-> FALSE])
    ELSE With(extractOne(s_norm, all_synonyms), LAMBDA best :
      IF best.found /\ ScoreAtLeast(best.score, fuzzy_threshold)
      THEN With(DictGet(synonym_to_skill, PyStr(Lower(best.choice)), PyNone),
                LAMBDA base_skill :
             [mapped_to |-> base_skill, ID |-> SkillId(skill_lookup, base_skill.v),
              fuzzy |-> TRUE])
      ELSE [mapped_to |-> PyNone, ID |-> PyNone, fuzzy |-> TRUE]))

(***************************************************************************)
(* The stage functions.  A call of the backend client ends as              *)
(* Returned(text) or as Raised("RuntimeError"), and a stage function is    *)
(* modelled from that outcome on.                                           *)
(***************************************************************************)

\* The fallback of extract_skills.
DefaultSkills ==
  PyDict(<< KV("hard_skills", EmptyList), KV("soft_skills", EmptyList),
            KV("spoken_languages", EmptyList), KV("department", PyStr("null")) >>)

DefaultContact ==
  PyDict(<< KV("name", PyStr("not provided")), KV("email", PyStr("not provided")),
            KV("phone_number", PyStr("not provided")) >>)

\* {name: "unknown" for name in names}, names a sequence of str values.
RECURSIVE UnknownLevels(_, _)
UnknownLevels(names, items) ==
  IF names = << >> THEN PyDict(items)
  ELSE UnknownLevels(Tail(names), DictPut(items, Head(names), PyStr("unknown")))

\* The try block of a stage function up to data.get: the outcome of the call,
\* the parse, the print of json.dumps(data, indent=2), which raises on a value
\* it cannot serialise, and the lookup of data.get, which only a mapping has.
Structured(output) ==
  IF ~output.ok THEN output
  ELSE With(safe_json_parse(output.v), LAMBDA data :
    IF ~data.ok THEN data
    ELSE IF ~JsonDumpsOk(data.v) THEN Raised("TypeError")
    ELSE IF ~IsDict(data.v) THEN Raised("AttributeError")
    ELSE data)

\* The mapping extract_skills returns from its try block.
ExtractedSkills(data) ==
  PyDict(<< KV("hard_skills", DictGet(data, PyStr("hard_skills"), EmptyList)),
            KV("soft_skills", DictGet(data, PyStr("soft_skills"), EmptyList)),
            KV("spoken_languages", DictGet(data, PyStr("spoken_languages"), EmptyList)),
            KV("department", DictGet(data, PyStr("department"), PyStr("null"))) >>)

\* extract_skills with a fallback that names no field.
extract_skills_bare(output) ==
  With(Structured(output), LAMBDA data :
    IF data.ok THEN ExtractedSkills(data.v) ELSE EmptyDict)

extract_skills(output) ==
  With(Structured(output), LAMBDA data :
    IF data.ok THEN ExtractedSkills(data.v) ELSE DefaultSkills)

\* The mapping estimate_skill_levels returns from its try block.
EstimatedLevels(data) ==
  PyDict(<< KV("skill_levels", DictGet(data, PyStr("hard_skill_levels"), EmptyDict)),
            KV("spoken_languages_levels",
               DictGet(data, PyStr("spoken_languages_levels"), EmptyDict)),
            KV("contact_details", DictGet(data, PyStr("contact_details"), DefaultContact)),
            KV("language_description",
               DictGet(data, PyStr("language_description"), PyStr("not detected"))) >>)

\* A fallback of estimate_skill_levels that names no skill.
DefaultLevelsBare(hard_skills, spoken_languages) ==
  PyDict(<< KV("skill_levels", EmptyDict),
            KV("spoken_languages_levels", UnknownLevels(spoken_languages.v, << >>)),
            KV("contact_details", DefaultContact),
            KV("language_description", PyStr("not detected")) >>)

\* The fallback of estimate_skill_levels.
DefaultLevels(hard_skills, spoken_languages) ==
  PyDict(<< KV("skill_levels", UnknownLevels(hard_skills.v, << >>)),
            KV("spoken_languages_levels", UnknownLevels(spoken_languages.v, << >>)),
            KV("contact_details", DefaultContact),
            KV("language_description", PyStr("not detected")) >>)

estimate_skill_levels(output, hard_skills, spoken_languages) ==
  With(Structured(output), LAMBDA data :
    IF data.ok THEN EstimatedLevels(data.v)
    ELSE DefaultLevels(hard_skills, spoken_languages))

UnknownIndustry ==
  PyDict(<< KV("main_industry", PyStr("unknown")), KV("subindustry", PyStr("unknown")) >>)

\* The second parse of safe_json_parse_industry, behind the first one.
RepairedIndustry(json_str, direct) ==
  IF direct.ok THEN direct.v
  ELSE With(json_loads(StripTrailingCommas(json_str, 1)), LAMBDA repaired :
    IF repaired.ok THEN repaired.v ELSE UnknownIndustry)

safe_json_parse_industry(text) ==
  With(JsonBlock(text), LAMBDA json_str :
    IF json_str = "" THEN UnknownIndustry
    ELSE RepairedIndustry(json_str, json_loads(json_str)))

\* s.startswith(sub), where the code tests sub in s.
IsPrefix(s, sub) == StartsWith(s, sub)

\* sub in s
Contains(s, sub) == sub = "" \/ Find(s, sub) # 0

\* The local keyword pass of map_industry over the industry mapping, a
\* sequence of [main, subs] in the order of the mapping's keys: the first hit,
\* or found = FALSE.
RECURSIVE LocalSub(_, _, _)
LocalSub(main, subs, s) ==
  IF subs = << >> THEN [found |-> FALSE]
  ELSE IF Contains(Lower(s), Lower(Head(subs)))
       THEN [found |-> TRUE,
             v |-> PyDict(<< KV("main_industry", PyStr(main)),
                             KV("subindustry", PyStr(Head(subs))) >>)]
       ELSE LocalSub(main, Tail(subs), s)

RECURSIVE LocalIndustry(_, _)
LocalIndustry(mapping, s) ==
  IF mapping = << >> THEN [found |-> FALSE]
  ELSE IF Contains(Lower(s), Lower(Head(mapping).main))
       THEN [found |-> TRUE,
             v |-> PyDict(<< KV("main_industry", PyStr(Head(mapping).main)),
                             KV("subindustry", PyStr("unknown")) >>)]
       ELSE With(LocalSub(Head(mapping).main, Head(mapping).subs, s), LAMBDA sub :
              IF sub.found THEN sub ELSE LocalIndustry(Tail(mapping), s))

(***************************************************************************)
(* JobExtractor: the indexes its constructor builds, and the steps of      *)
(* process_job between two calls of the backend.                            *)
(***************************************************************************)

\* The number an int value holds.
RECURSIVE DigitsValue(_, _)
DigitsValue(digits, acc) ==
  IF digits = "" THEN acc
  ELSE DigitsValue(Tail(digits), 10 * acc + (Find("0123456789", Head(digits)) - 1))

IntOf(x) ==
  IF Head(x.v) = "-" THEN 0 - DigitsValue(Tail(x.v), 0) ELSE DigitsValue(x.v, 0)

\* {base_skill.lower(): info for base_skill, info in taxonomy.items()}
RECURSIVE LowerKeys(_, _)
LowerKeys(items, acc) ==
  IF items = << >> THEN PyDict(acc)
  ELSE LowerKeys(Tail(items), DictPut(acc, PyStr(Lower(Head(items).k.v)), Head(items).val))

\* {base_skill.lower(): [syn.lower() for syn in synonyms] for ...}
RECURSIVE LowerSynonyms(_, _)
LowerSynonyms(items, acc) ==
  IF items = << >> THEN PyDict(acc)
  ELSE With(Head(items).val.v, LAMBDA synonyms :
         LowerSynonyms(Tail(items),
                       DictPut(acc, PyStr(Lower(Head(items).k.v)),
                               PyList([n \in 1..Len(synonyms) |-> PyStr(Lower(synonyms[n].v))]))))

\* {syn: base_skill for base_skill, synonyms in skill_synonyms.items() for syn in synonyms}
RECURSIVE PutEach(_, _, _)
PutEach(synonyms, base_skill, acc) ==
  IF synonyms = << >> THEN acc
  ELSE PutEach(Tail(synonyms), base_skill, DictPut(acc, Head(synonyms), base_skill))

RECURSIVE Flatten(_, _)
Flatten(items, acc) ==
  IF items = << >> THEN PyDict(acc)
  ELSE Flatten(Tail(items), PutEach(Head(items).val.v, Head(items).k, acc))

\* The fields __init__ sets from skills_data.
JobExtractorInit(skills_data) ==
  With(LowerSynonyms(DictGet(skills_data, PyStr("synonyms"), EmptyDict).v, << >>),
       LAMBDA skill_synonyms :
  With(Flatten(skill_synonyms.v, << >>), LAMBDA synonym_to_skill :
      [skill_to_info    |-> LowerKeys(DictGet(skills_data, PyStr("taxonomy"), EmptyDict).v, << >>),
       skill_synonyms   |-> skill_synonyms,
       fuzzy_threshold  |-> IntOf(DictGet(skills_data, PyStr("fuzzy_threshold"),
                                          PyInt("85"))),
       synonym_to_skill |-> synonym_to_skill,
       all_synonyms     |-> KeyStrings(synonym_to_skill)]))

\* self.map_skill_with_synonyms_verbose(extracted_skill)
map_skill_wrapper(self, extracted_skill) ==
  map_skill_with_synonyms_verbose(extracted_skill, self.synonym_to_skill, self.skill_to_info,
                                  self.all_synonyms, self.fuzzy_threshold)

original_columns ==
  << "id", "title", "job_function", "job_level", "job_type", "is_remote", "location",
     "date_posted", "job_url", "site", "company", "company_url", "company_industry",
     "description" >>

\* What a for loop over x visits, or the TypeError of a value that is not
\* iterable.
Elements(x) ==
  IF x.t \in {"list", "tuple", "set"} THEN Returned(x.v)
  ELSE IF x.t = "dict" THEN Returned(Keys(x))
  ELSE IF x.t = "str" THEN Returned(Chars(x))
  ELSE Raised("TypeError")

\* [s.strip() for s in x if s.strip()]
StripItems(x) ==
  With(Elements(x), LAMBDA items :
    IF ~items.ok THEN items
    ELSE IF \E n \in 1..Len(items.v) : items.v[n].t # "str" THEN Raised("AttributeError")
    ELSE With([n \in 1..Len(items.v) |-> PyStr(Strip(items.v[n].v))], LAMBDA stripped :
           Returned(PyList(SelectSeq(stripped, LAMBDA e : e.v # "")))))

\* Step 3 of process_job: the levels keyed by taxonomy id where the skill
\* name resolves to one, by the skill name elsewhere.
RECURSIVE MapLevels(_, _, _)
MapLevels(self, items, acc) ==
  IF items = << >> THEN Returned(PyDict(acc))
  ELSE IF Head(items).k.t # "str" THEN Raised("AttributeError")
  ELSE With(map_skill_wrapper(self, Head(items).k.v), LAMBDA mapped :
    MapLevels(self, Tail(items),
              DictPut(acc, IF Truthy(mapped.ID) THEN PyStr(Str(mapped.ID)) ELSE Head(items).k,
                      Head(items).val)))

MapSkillLevels(self, skill_levels) ==
  IF ~IsDict(skill_levels) THEN Raised("AttributeError")
  ELSE MapLevels(self, skill_levels.v, << >>)

\* default for None only, where the code writes x or default.
OrNone(x, default) == IF x = PyNone THEN default ELSE x

\* x or default
Or(x, default) == IF Truthy(x) THEN x ELSE default

\* f"{main_ind}: {sub_ind}"
IndustryLabel(industry) ==
  Str(Or(DictGet(industry, PyStr("main_industry"), PyNone), PyStr("unknown"))) \o ": "
    \o Str(Or(DictGet(industry, PyStr("subindustry"), PyNone), PyStr("unknown")))

\* d = other, where the code writes d.update(other).
Replaced(items, other) == other

\* d.update(other), on the items of both.
RECURSIVE Update(_, _)
Update(items, other) ==
  IF other = << >> THEN items
  ELSE Update(DictPut(items, Head(other).k, Head(other).val), Tail(other))

\* Step 5 of process_job.
FinalRecord(job_record, skill_levels_with_ids, extra_data, industry, description) ==
  PyDict(Update([n \in 1..Len(original_columns) |->
                   KV(original_columns[n], DictGet(job_record, PyStr(original_columns[n]), PyNone))],
                << KV("hard_skills", skill_levels_with_ids),
                   KV("spoken_languages", DictGet(extra_data, PyStr("spoken_languages_levels"), PyNone)),
                   KV("contact_details", DictGet(extra_data, PyStr("contact_details"), PyNone)),
                   KV("language_description", DictGet(extra_data, PyStr("language_description"), PyNone)),
                   KV("company_industry", PyStr(IndustryLabel(industry))),
                   KV("description", PyStr(description)) >>))

(***************************************************************************)
(* The backend, as the client sees it.  A reply to one request is a        *)
(* transport failure (requests.post raises) or a response with a status    *)
(* and the lines iter_lines yields; broken marks a stream that raises       *)
(* behind its last line.                                                    *)
(***************************************************************************)

\* The JSON string literal of a text.
JsonQuoteChar(c) ==
  IF c = "\"" THEN "\\\""
  ELSE IF c = "\\" THEN "\\\\"
  ELSE IF c = "\n" THEN "\\n"
  ELSE IF c = "\t" THEN "\\t"
  ELSE IF c = "\r" THEN "\\r"
  ELSE c

JsonQuoteBody(s) == Concat([n \in 1..Len(s) |-> JsonQuoteChar(At(s, n))])

\* One line of a streamed generation: an object whose "response" holds the
\* next fragment of the generated text.
Chunk(fragment) ==
  "{\"model\":\"m\",\"response\":\"" \o JsonQuoteBody(fragment) \o "\",\"done\":false}"

DoneChunk == "{\"model\":\"m\",\"response\":\"\",\"done\":true}"

\* The characters of one streamed fragment.
FragmentLen == 24

Min(a, b) == IF a <= b THEN a ELSE b

\* A generated text as the backend streams it: fragment by fragment, a
\* keep-alive line behind the first one, and the closing line.
Stream(text) ==
  << Chunk(SubSeq(text, 1, Min(FragmentLen, Len(text)))), "" >>
    \o [n \in 1..((Len(text) - 1) \div FragmentLen) |->
          Chunk(SubSeq(text, n * FragmentLen + 1, Min((n + 1) * FragmentLen, Len(text))))]
    \o << DoneChunk >>

TransportFailure == [kind |-> "transport", status |-> 0, chunks |-> << >>, broken |-> FALSE]

Response(status, chunks) ==
  [kind |-> "response", status |-> status, chunks |-> chunks, broken |-> FALSE]

BrokenResponse(chunks) ==
  [kind |-> "response", status |-> 200, chunks |-> chunks, broken |-> TRUE]

\* Replies of every stage: the failures, bodies that are blank or are not the
\* stream of objects the client expects, and one that mixes plain lines, empty
\* lines and an object.
AnyStageReplies ==
  { TransportFailure,
    Response(500, << "{\"error\":\"model not found\"}" >>),
    Response(200, << >>),
    Response(200, Stream(" \n")),
    Response(200, << "[1]" >>),
    Response(200, << "{\"response\":null}" >>),
    Response(200, << "Note: ", "", Chunk("{}"), "", " end" >>),
    BrokenResponse(<< Chunk("{") >>) }

\* Generated texts of the skill extraction prompt.
SkillTexts ==
  { "{\"hard_skills\": [\"SQL\", \" Pythn \"], \"soft_skills\": [\"teamwork\"], \"spoken_languages\": [\"English\"], \"department\": \"IT\"}",
    "Sure! Here is the JSON:\n{\"hard_skills\": [\"SQL\"], \"soft_skills\": [],}  // done",
    "{\n\"hard_skills\": [\"py\"],\n\"department\": \"IT\",\n",
    "Sorry, I cannot help.",
    "{}",
    "{\"hard_skills\": \"SQL\"}",
    "{\"hard_skills\": 7}",
    "{\"hard_skills\": [\"SQL\", 7]}",
    "{\"hard_skills\", \"SQL\"}" }

\* Generated texts of the level estimation prompt.
LevelTexts ==
  { "{\"hard_skill_levels\": {\"SQL\": \"expert\", \"Pythn\": \"basic\"}, \"spoken_languages_levels\": {\"English\": \"fluent\"}, \"contact_details\": {\"name\": \"Ann\", \"email\": \"not provided\", \"phone_number\": \"not provided\"}, \"language_description\": \"en\"}",
    "{\"hard_skill_levels\": {\"SQL\": \"basic\", \"sql server\": \"expert\", \"cobol\": \"basic\"}}",
    "{}",
    "{\"hard_skill_levels\": [\"SQL\"]}",
    "{\"hard_skill_levels\": null}",
    "{\"hard_skill_levels\": {1: \"expert\"},\n}",
    "I think SQL is needed." }

\* Generated texts of the industry prompt.
IndustryTexts ==
  { "{\"main_industry\": \"Technology\", \"subindustry\": \"Software\"}",
    "Here you go: {\"main_industry\": \"Mining\", \"subindustry\": \"Space\",}",
    "{\"main_industry\": null, \"subindustry\": \"\"}",
    "{\"main_industry\": [\"Mining\"]}",
    "unknown" }

Texts(stage) ==
  IF stage = "extract_skills" THEN SkillTexts
  ELSE IF stage = "estimate_skill_levels" THEN LevelTexts
  ELSE IndustryTexts

Replies(stage) ==
  AnyStageReplies \cup { Response(200, Stream(text)) : text \in Texts(stage) }
    \cup { Response(200, << text >>) : text \in {"Sorry, I cannot help.", "unknown"} \cap Texts(stage) }

\* The chunk loop, were it to add only the lines that are JSON.
RECURSIVE ReadLinesJsonOnly(_, _)
ReadLinesJsonOnly(chunks, full_output) ==
  IF chunks = << >> THEN Returned(full_output)
  ELSE IF Head(chunks) = "" THEN ReadLinesJsonOnly(Tail(chunks), full_output)
  ELSE With(json_loads(Head(chunks)), LAMBDA json_chunk :
    IF ~json_chunk.ok THEN ReadLinesJsonOnly(Tail(chunks), full_output)
    ELSE IF ~IsDict(json_chunk.v) THEN Raised("AttributeError")
    ELSE With(DictGet(json_chunk.v, PyStr("response"), PyStr("")), LAMBDA fragment :
      IF ~IsStr(fragment) THEN Raised("TypeError")
      ELSE ReadLinesJsonOnly(Tail(chunks), full_output \o fragment.v)))

\* The body of the chunk loop: the text gathered from the lines, or the
\* exception a line raises (a JSON line that is no object has no get; a
\* "response" that is no str cannot be added to the text).
RECURSIVE ReadLines(_, _)
ReadLines(chunks, full_output) ==
  IF chunks = << >> THEN Returned(full_output)
  ELSE IF Head(chunks) = "" THEN ReadLines(Tail(chunks), full_output)
  ELSE With(json_loads(Head(chunks)), LAMBDA json_chunk :
    IF ~json_chunk.ok THEN ReadLines(Tail(chunks), full_output \o Head(chunks))
    ELSE IF ~IsDict(json_chunk.v) THEN Raised("AttributeError")
    ELSE With(DictGet(json_chunk.v, PyStr("response"), PyStr("")), LAMBDA fragment :
      IF ~IsStr(fragment) THEN Raised("TypeError")
      ELSE ReadLines(Tail(chunks), full_output \o fragment.v)))

\* The chunk loop over a response: a broken stream raises behind its last
\* line.
ReadBody(reply) ==
  With(ReadLines(reply.chunks, ""), LAMBDA body :
    IF body.ok /\ reply.broken THEN Raised("ConnectionError") ELSE body)

(***************************************************************************)
(* One pass of the retry loop of call_llm and of call_local_llm: what the  *)
(* attempt ended as, the seconds slept behind it, and the text it returns. *)
(***************************************************************************)

\* How one pass ended: the status of the response (0 when there is none), the
\* lines iter_lines yielded (chunks), the text gathered from them (body, ""
\* when the loop over them did not end), the cause of the outcome, the seconds
\* of time.sleep behind it, and the text the call returns.
Failed(reply, cause, slept, body) ==
  [cause |-> cause, slept |-> slept, text |-> "", status |-> reply.status, body |-> body,
   chunks |-> reply.chunks]

Succeeded(reply, full_output) ==
  [cause |-> "returned", slept |-> 0, text |-> full_output, status |-> reply.status,
   body |-> full_output, chunks |-> reply.chunks]

\* call_llm behind the chunk loop, were its test "if not full_output".
LlmReadUnstripped(reply, full_output) ==
  IF ~full_output.ok THEN Failed(reply, "exception", 1, "")
  ELSE IF full_output.v = "" THEN Failed(reply, "empty", 0, full_output.v)
  ELSE Succeeded(reply, full_output.v)

\* call_llm, behind the chunk loop.
LlmRead(reply, full_output) ==
  IF ~full_output.ok THEN Failed(reply, "exception", 1, "")
  ELSE IF Strip(full_output.v) = "" THEN Failed(reply, "empty", 0, full_output.v)
  ELSE Succeeded(reply, full_output.v)

\* call_llm
LlmAttempt(reply) ==
  IF reply.kind = "transport" THEN Failed(reply, "transport", 1, "")
  ELSE IF reply.status # 200 THEN Failed(reply, "status", 1, "")
  ELSE LlmRead(reply, ReadBody(reply))

\* call_local_llm, behind the chunk loop.
LocalLlmRead(reply, full_output) ==
  IF ~full_output.ok THEN Failed(reply, "exception", 1, "")
  ELSE Succeeded(reply, full_output.v)

\* call_local_llm
LocalLlmAttempt(reply) ==
  IF reply.kind = "transport" THEN Failed(reply, "transport", 1, "")
  ELSE LocalLlmRead(reply, ReadBody(reply))

\* llm_config.get("max_retries", default)
MaxRetriesOf(config, default) == IntOf(DictGet(config, PyStr("max_retries"), default))

\* How a call ends when its loop runs out of attempts.
Exhausted(stage) == IF stage = "call_local_llm" THEN Returned("") ELSE Raised("RuntimeError")

Pending == [ok |-> FALSE, exc |-> "pending"]

NotCalled == [ok |-> FALSE, exc |-> "not called"]

NoAttempt ==
  [attempt |-> 0, cause |-> "none", slept |-> 0, status |-> 0, body |-> "", chunks |-> << >>]

(***************************************************************************)
(* The inputs.                                                              *)
(***************************************************************************)

\* The largest max_retries of a config.
MaxRetries == 2

\* The keys of the llm section that every config here has.
LlmSection ==
  << KV("model_name", PyStr("mistral:instruct")), KV("base_delay", PyInt("1")),
     KV("max_delay", PyInt("4")), KV("jitter_bound", PyInt("0")) >>

LlmConfigs ==
  { PyDict(LlmSection) }
    \cup { PyDict(Append(LlmSection,
                         KV("max_retries", PyInt(SubSeq("0123456789", n + 1, n + 1))))) :
           n \in 0..MaxRetries }

\* industry_mappings.json, in the order of its keys.
IndustryMapping ==
  << [main |-> "Technology", subs |-> << "Software", "IT Services" >>],
     [main |-> "Health Care", subs |-> << "Hospitals" >> ] >>

\* The taxonomy and synonyms files and the configured threshold.
SkillsData ==
  PyDict(<< KV("taxonomy",
               PyDict(<< KV("Python", PyDict(<< KV("ID", PyStr("S1")), KV("group", PyStr("IT")) >>)),
                         KV("SQL", PyDict(<< KV("ID", PyStr("S2")), KV("group", PyStr("IT")) >>)) >>)),
            KV("synonyms",
               PyDict(<< KV("Python", PyList(<< PyStr("Python"), PyStr("py") >>)),
                         KV("SQL", PyList(<< PyStr("SQL"), PyStr("sql server") >>)) >>)),
            KV("fuzzy_threshold", PyInt("85")) >>)

\* Synonym files for the resolver alone: the one above; one in which two
\* skills hold the same words in another order, so that the scorer rates both
\* synonyms alike; one of a skill the taxonomy does not hold; and an empty one.
SynonymFiles ==
  { << KV("Python", PyList(<< PyStr("Python"), PyStr("py") >>)),
       KV("SQL", PyList(<< PyStr("SQL"), PyStr("sql server") >>)) >>,
    << KV("SQL", PyList(<< PyStr("SQL Server") >>)),
       KV("Server", PyList(<< PyStr("server sql"), PyStr("Windows Server") >>)) >>,
    << KV("Cobol", PyList(<< PyStr("Cobol"), PyStr("cbl") >>)) >>,
    << >> }

Taxonomy ==
  PyDict(<< KV("Python", PyDict(<< KV("ID", PyStr("S1")) >>)),
            KV("SQL", PyDict(<< KV("ID", PyStr("S2")) >>)),
            KV("Server", PyDict(<< KV("ID", PyInt("3")) >>)) >>)

\* The fuzzy_threshold entry of skills_data: absent, or one of three values.
ThresholdEntries ==
  { << >>, << KV("fuzzy_threshold", PyInt("80")) >>, << KV("fuzzy_threshold", PyInt("85")) >>,
    << KV("fuzzy_threshold", PyInt("100")) >> }

ResolverData ==
  { PyDict(<< KV("taxonomy", Taxonomy), KV("synonyms", PyDict(synonyms)) >> \o threshold) :
      synonyms \in SynonymFiles, threshold \in ThresholdEntries }

\* Skill mentions, as the backend names them.
Mentions ==
  { "SQL", " Sql Server ", "server sql", "Pythn", "sq", "cobol", "", "py", "pyhton",
    "windows  server", "sql-server", "Server", "Sql  Server" }

\* Rows of the jobs table, as the ingestor hands them over.
JobRecords ==
  { PyDict(<< KV("id", PyStr("j1")), KV("title", PyStr("Data Engineer")),
              KV("company_industry", PyStr("Software Development")),
              KV("description", PyStr("We need a Python\tdeveloper.\r\n\r\n\r\nSQL is a  plus. ")) >>),
    PyDict(<< KV("id", PyStr("j2")), KV("title", PyStr("Driller")),
              KV("company_industry", PyStr("Space mining")),
              KV("description", PyStr("Drill.")) >>),
    PyDict(<< KV("id", PyStr("j3")), KV("title", PyNone),
              KV("company_industry", PyStr("  ")) >>),
    PyDict(<< KV("id", PyStr("j4")), KV("title", PyStr("Nurse")),
              KV("company_industry", PyNone),
              KV("description", PyStr("Care.")) >>),
    PyDict(<< KV("id", PyStr("j5")), KV("title", PyStr("Clerk")),
              KV("company_industry", PyStr("Hospitals")),
              KV("description", PyNone) >>),
    PyDict(<< KV("id", PyStr("j6")),
              KV("company_industry", PyStr("Private HEALTH CARE, Hospitals")),
              KV("description", PyStr("Care.")) >>) }

\* What fetch_job_data returns: rows in ascending order of id, a row whose id
\* is NULL behind the others.
FetchedJobs ==
  { << >>,
    << PyDict(<< KV("id", PyNone), KV("title", PyStr("Nurse")),
                 KV("company_industry", PyStr("Hospitals")),
                 KV("description", PyStr("Care.")) >>) >>,
    << PyDict(<< KV("id", PyStr("j2")), KV("title", PyStr("Driller")),
                 KV("company_industry", PyStr("Space mining")),
                 KV("description", PyStr("Drill.")) >>),
       PyDict(<< KV("id", PyNone), KV("title", PyStr("Clerk")),
                 KV("company_industry", PyStr("")),
                 KV("description", PyStr("File.")) >>) >>,
    << PyDict(<< KV("id", PyStr("j1")), KV("title", PyStr("Data Engineer")),
                 KV("company_industry", PyStr("Software")),
                 KV("description", PyStr("SQL.")) >>),
       PyDict(<< KV("id", PyStr("j5")), KV("title", PyStr("Clerk")),
                 KV("company_industry", PyStr("Hospitals")),
                 KV("description", PyNone) >>) >> }

\* config["processing"]["max_jobs"]: not set, or a count.
MaxJobs == { PyNone, PyInt("0"), PyInt("1") }

\* The longest text handed to clean_job_description on its own.
MaxTextLen == 5

\* The characters of those texts: a letter, and the whitespace a TLA+ string
\* can hold (form feed is one of the characters str.splitlines breaks on).
TextChars == << "a", " ", "\n", "\f", "\t", "\r" >>

RawTexts ==
  UNION { { Concat([k \in 1..n |-> TextChars[pick[k]]]) : pick \in [1..n -> 1..Len(TextChars)] } :
          n \in 0..MaxTextLen }

\* Valid JSON objects, each cut behind the last value of an object or array:
\* the pieces joined give the object, and a comma at a cut stands immediately
\* before a closing bracket.
ObjectPieces ==
  { << "{\"a\": [1, 2", "], \"b\": {\"c\": \"x\"", "}", "}" >>,
    << "{\n\"a\": [\n1,\n2\n", "],\n\"b\": true", "}" >>,
    << "{\"a\": 1", "}" >>,
    << "{\"a\": [{\"b\": null", "}", "]", "}" >>,
    << "{\"a\":\n7", "}" >>,
    << "{\"hard_skills\": [\"SQL\"", "], \"department\": \"IT\"", "}" >> }

\* Explanatory prose in front of the object.
Prose == { "", "Sure! Here is the JSON:\n", "Result: ", "Answer (short): " }

\* A comment behind the object.
Comments == { "", " // done", "\n// end of answer" }

\* The pieces, with a comma in front of each piece that commas marks.
WithCommas(pieces, commas) ==
  Concat([n \in 1..Len(pieces) |-> IF n \in commas THEN "," \o pieces[n] ELSE pieces[n]])

\* Backend texts that are a valid JSON object behind prose, in front of a
\* comment and with trailing commas, each with the object it was made from.
AlteredTexts ==
  UNION { { [ raw |-> before \o WithCommas(pieces, commas) \o after,
              object |-> Concat(pieces) ] :
            before \in Prose, after \in Comments, commas \in SUBSET (2..Len(pieces)) } :
          pieces \in ObjectPieces }

\* Backend texts that are a valid JSON object and nothing else.
ExactObjects ==
  { "{\"a\": 1}", "{\"a\": \"x (y)\"}", "{\"a\": \"<b>x</b>\"}", "{\"a\": \"see // here\"}",
    "{\"a\": \"http://x.y\"}", "{\"a\": \"f(x)\", \"b\": [1, 2]}",
    "{\"a\": \"1 < 2\", \"b\": \"3 > 2\"}", "{\"a\": \"p(\", \"b\": \")q\"}",
    "{\n  \"a\": {\n    \"b\": [\n      true\n    ]\n  }\n}" }

ParserTexts == { altered.raw : altered \in AlteredTexts } \cup ExactObjects

(***************************************************************************)
(* The state: the extractor's fields, the record in work, the position of  *)
(* process_job, the retry loop of the call in progress, and the locals of  *)
(* process_job.                                                             *)
(***************************************************************************)

VARIABLES
  self,                  \* the fields of the JobExtractor
  llm_config,            \* self.llm_config
  job_record,            \* the argument of process_job
  pc,                    \* where process_job stands
  attempt,               \* the loop variable of the call in progress
  requests,              \* the requests the call in progress has issued
  last,                  \* the latest pass of the retry loop
  outputs,               \* how the call of each stage ended
  description, skills_data, hard_skills, spoken_languages, extra_data,
  skill_levels_with_ids, industry_mapping, final_record,
  error,                 \* the exception that left process_job, and where
  mention, mapped,       \* a skill mention under resolution, and its result
  jobs,                  \* main: the rows fetch_job_data returned
  idx,                   \* main: the index of the loop over jobs
  max_jobs,              \* main: config["processing"]["max_jobs"]
  processed,             \* main: the rows process_job was called with
  sink,                  \* main: the records insert_job was called with
  text, returned         \* a text handed to a text function, and what it returned

vars ==
  << self, llm_config, job_record, pc, attempt, requests, last, outputs, description,
     skills_data, hard_skills, spoken_languages, extra_data, skill_levels_with_ids,
     industry_mapping, final_record, error, mention, mapped, jobs, idx, max_jobs,
     processed, sink, text, returned >>

locals ==
  << description, skills_data, hard_skills, spoken_languages, extra_data,
     skill_levels_with_ids, industry_mapping, final_record >>

inputs == << self, llm_config, job_record, mention, mapped, text, returned >>

call == << attempt, requests, last, outputs >>

run == << jobs, idx, max_jobs, processed, sink >>

NoError == [step |-> "", exc |-> ""]

Unmapped == [mapped_to |-> PyNone, ID |-> PyNone, fuzzy |-> FALSE]

CallStages == {"extract_skills", "estimate_skill_levels", "call_local_llm"}

\* No run of main is under way.
NoRun ==
  /\ text = ""
  /\ returned = PyNone
  /\ jobs = << >>
  /\ idx = 0
  /\ max_jobs = PyNone
  /\ processed = << >>
  /\ sink = << >>

InitLocals ==
  /\ pc = "process_job"
  /\ attempt = 1
  /\ requests = 0
  /\ last = NoAttempt
  /\ outputs = [stage \in CallStages |-> NotCalled]
  /\ description = PyNone
  /\ skills_data = PyNone
  /\ hard_skills = PyNone
  /\ spoken_languages = PyNone
  /\ extra_data = PyNone
  /\ skill_levels_with_ids = PyNone
  /\ industry_mapping = PyNone
  /\ final_record = PyNone
  /\ error = NoError

Init ==
  /\ self = JobExtractorInit(SkillsData)
  /\ llm_config \in LlmConfigs
  /\ job_record \in JobRecords
  /\ mention = ""
  /\ mapped = Unmapped
  /\ InitLocals
  /\ NoRun

\* An exception leaves process_job.
Raise(step, result) ==
  /\ pc' = "raised"
  /\ error' = [step |-> step, exc |-> result.exc]

\* The entry of a call: the loop variable at 1, and the call over at once
\* when range(1, max_retries + 1) is empty.
BeginCall(stage, max_retries) ==
  /\ attempt' = 1
  /\ requests' = 0
  /\ last' = NoAttempt
  /\ outputs' = [outputs EXCEPT ![stage] = IF max_retries >= 1 THEN Pending ELSE Exhausted(stage)]

\* One pass of a loop that runs once more than max_retries allows.
PassOnceMore(stage, max_retries, result) ==
  /\ requests' = requests + 1
  /\ last' = [attempt |-> attempt, cause |-> result.cause, slept |-> result.slept,
               status |-> result.status, body |-> result.body, chunks |-> result.chunks]
  /\ IF result.cause = "returned"
     THEN /\ attempt' = attempt
          /\ outputs' = [outputs EXCEPT ![stage] = Returned(result.text)]
     ELSE /\ attempt' = attempt + 1
          /\ outputs' = [outputs EXCEPT ![stage] =
                           IF attempt > max_retries THEN Exhausted(stage) ELSE Pending]

\* One pass of the loop, which ended as result.
Pass(stage, max_retries, result) ==
  /\ requests' = requests + 1
  /\ last' = [attempt |-> attempt, cause |-> result.cause, slept |-> result.slept,
               status |-> result.status, body |-> result.body, chunks |-> result.chunks]
  /\ IF result.cause = "returned"
     THEN /\ attempt' = attempt
          /\ outputs' = [outputs EXCEPT ![stage] = Returned(result.text)]
     ELSE /\ attempt' = attempt + 1
          /\ outputs' = [outputs EXCEPT ![stage] =
                           IF attempt + 1 > max_retries THEN Exhausted(stage) ELSE Pending]

\* Whether the call of a stage is over.
Over(stage) == IF outputs[stage].ok THEN TRUE ELSE outputs[stage].exc = "RuntimeError"

\* process_job from its entry, for the raw_desc it reads.
Clean(raw_desc) ==
  IF ~IsStr(raw_desc)
  THEN /\ Raise("clean_job_description", Raised("AttributeError"))
       /\ UNCHANGED << call, description >>
  ELSE /\ description' = PyStr(clean_job_description(raw_desc.v))
       /\ pc' = "extract_skills"
       /\ BeginCall("extract_skills", MaxRetriesOf(llm_config, PyInt("1")))
       /\ UNCHANGED error

\* process_job up to the first request of extract_skills.
CleanDescription ==
  /\ pc = "process_job"
  /\ Clean(DictGet(job_record, PyStr("description"), PyStr("")))
  /\ UNCHANGED << inputs, run, skills_data, hard_skills, spoken_languages, extra_data,
                  skill_levels_with_ids, industry_mapping, final_record >>

\* One pass of the retry loop of call_llm.
CallLlm ==
  /\ pc \in {"extract_skills", "estimate_skill_levels"}
  /\ ~Over(pc)
  /\ \E reply \in Replies(pc) :
       Pass(pc, MaxRetriesOf(llm_config, PyInt("1")), LlmAttempt(reply))
  /\ UNCHANGED << inputs, run, locals, pc, error >>

\* The lists process_job takes from the mapping extract_skills returned.
SkillLists(data) ==
  [skills_data      |-> data,
   hard_skills      |-> StripItems(DictGet(data, PyStr("hard_skills"), EmptyList)),
   spoken_languages |-> StripItems(DictGet(data, PyStr("spoken_languages"), EmptyList))]

\* process_job behind extract_skills, for the lists it took.
TakeSkills(lists) ==
  /\ skills_data' = lists.skills_data
  /\ IF ~lists.hard_skills.ok
     THEN /\ Raise("hard_skills", lists.hard_skills)
          /\ UNCHANGED << call, hard_skills, spoken_languages >>
     ELSE IF ~lists.spoken_languages.ok
     THEN /\ Raise("spoken_languages", lists.spoken_languages)
          /\ hard_skills' = lists.hard_skills.v
          /\ UNCHANGED << call, spoken_languages >>
     ELSE /\ hard_skills' = lists.hard_skills.v
          /\ spoken_languages' = lists.spoken_languages.v
          /\ pc' = "estimate_skill_levels"
          /\ BeginCall("estimate_skill_levels", MaxRetriesOf(llm_config, PyInt("1")))
          /\ UNCHANGED error

\* extract_skills behind its call, and process_job up to the first request of
\* estimate_skill_levels.
ExtractSkillsReturn ==
  /\ pc = "extract_skills"
  /\ Over(pc)
  /\ TakeSkills(SkillLists(extract_skills(outputs[pc])))
  /\ UNCHANGED << inputs, run, description, extra_data, skill_levels_with_ids, industry_mapping,
                  final_record >>

\* estimate_skill_levels behind its call.
EstimateSkillLevelsReturn ==
  /\ pc = "estimate_skill_levels"
  /\ Over(pc)
  /\ extra_data' = estimate_skill_levels(outputs[pc], hard_skills, spoken_languages)
  /\ pc' = "map_skills"
  /\ UNCHANGED << inputs, run, call, error, description, skills_data, hard_skills, spoken_languages,
                  skill_levels_with_ids, industry_mapping, final_record >>

\* process_job going on to map_industry without the result of step 3.
TakeLevelsSkipped(ids) ==
  /\ pc' = "map_industry"
  /\ UNCHANGED << skill_levels_with_ids, error >>

\* process_job behind the loop of step 3, for the outcome of the loop.
TakeLevels(ids) ==
  IF ~ids.ok
  THEN /\ Raise("skill_levels", ids)
       /\ UNCHANGED skill_levels_with_ids
  ELSE /\ skill_levels_with_ids' = ids.v
       /\ pc' = "map_industry"
       /\ UNCHANGED error

\* Step 3 of process_job.
MapSkills ==
  /\ pc = "map_skills"
  /\ TakeLevels(MapSkillLevels(self, DictGet(extra_data, PyStr("skill_levels"), PyNone)))
  /\ UNCHANGED << inputs, run, call, description, skills_data, hard_skills, spoken_languages,
                  extra_data, industry_mapping, final_record >>

\* map_industry behind its local keyword pass.
Classify(local) ==
  IF local.found
  THEN /\ industry_mapping' = local.v
       /\ pc' = "merge"
       /\ UNCHANGED << call, error >>
  ELSE /\ pc' = "call_local_llm"
       /\ BeginCall("call_local_llm", MaxRetriesOf(llm_config, PyInt("2")))
       /\ UNCHANGED << industry_mapping, error >>

\* map_industry without the test of its first line.
IndustryUnguarded(company_industry) ==
  IF ~IsStr(company_industry)
  THEN /\ Raise("map_industry", Raised("AttributeError"))
       /\ UNCHANGED << call, industry_mapping >>
  ELSE Classify(LocalIndustry(IndustryMapping, company_industry.v))

\* map_industry from its entry, for the company_industry process_job reads.
Industry(company_industry) ==
  IF ~IsStr(company_industry)
  THEN /\ Raise("map_industry", Raised("AttributeError"))
       /\ UNCHANGED << call, industry_mapping >>
  ELSE IF Strip(company_industry.v) = ""
  THEN /\ industry_mapping' = UnknownIndustry
       /\ pc' = "merge"
       /\ UNCHANGED << call, error >>
  ELSE Classify(LocalIndustry(IndustryMapping, company_industry.v))

\* map_industry up to the first request of call_local_llm.
MapIndustry ==
  /\ pc = "map_industry"
  /\ Industry(DictGet(job_record, PyStr("company_industry"), PyStr("")))
  /\ UNCHANGED << inputs, run, description, skills_data, hard_skills, spoken_languages, extra_data,
                  skill_levels_with_ids, final_record >>

\* One pass of the retry loop of call_local_llm.
CallLocalLlm ==
  /\ pc = "call_local_llm"
  /\ ~Over(pc)
  /\ \E reply \in Replies(pc) :
       Pass(pc, MaxRetriesOf(llm_config, PyInt("2")), LocalLlmAttempt(reply))
  /\ UNCHANGED << inputs, run, locals, pc, error >>

\* map_industry behind its call.
MapIndustryReturn ==
  /\ pc = "call_local_llm"
  /\ Over(pc)
  /\ industry_mapping' = safe_json_parse_industry(outputs[pc].v)
  /\ pc' = "merge"
  /\ UNCHANGED << inputs, run, call, error, description, skills_data, hard_skills, spoken_languages,
                  extra_data, skill_levels_with_ids, final_record >>

\* Step 5 of process_job, and its return.
Merge ==
  /\ pc = "merge"
  /\ final_record' = FinalRecord(job_record, skill_levels_with_ids, extra_data,
                                 industry_mapping, description.v)
  /\ pc' = "returned"
  /\ UNCHANGED << inputs, run, call, error, description, skills_data, hard_skills, spoken_languages,
                  extra_data, skill_levels_with_ids, industry_mapping >>

Next ==
  \/ CleanDescription
  \/ CallLlm
  \/ ExtractSkillsReturn
  \/ EstimateSkillLevelsReturn
  \/ MapSkills
  \/ MapIndustry
  \/ CallLocalLlm
  \/ MapIndustryReturn
  \/ Merge

Spec == Init /\ [][Next]_vars

(***************************************************************************)
(* The run of main behind its bootstrap: the loop over the fetched rows,   *)
(* each handed to process_job and its record to insert_job.  An exception  *)
(* that leaves process_job leaves main.                                     *)
(***************************************************************************)
InitRun ==
  /\ self = JobExtractorInit(SkillsData)
  /\ llm_config = PyDict(LlmSection)
  /\ job_record = PyNone
  /\ mention = ""
  /\ mapped = Unmapped
  /\ attempt = 1
  /\ requests = 0
  /\ last = NoAttempt
  /\ outputs = [stage \in CallStages |-> NotCalled]
  /\ description = PyNone
  /\ skills_data = PyNone
  /\ hard_skills = PyNone
  /\ spoken_languages = PyNone
  /\ extra_data = PyNone
  /\ skill_levels_with_ids = PyNone
  /\ industry_mapping = PyNone
  /\ final_record = PyNone
  /\ error = NoError
  /\ pc = "for"
  /\ text = ""
  /\ returned = PyNone
  /\ jobs \in FetchedJobs
  /\ idx = 0
  /\ max_jobs \in MaxJobs
  /\ processed = << >>
  /\ sink = << >>

\* max_jobs is not None and idx >= max_jobs
AtMaxJobs == IF max_jobs = PyNone THEN FALSE ELSE idx >= IntOf(max_jobs)

\* The head of the loop and the call of process_job on the next row.
ProcessJob ==
  /\ pc = "for"
  /\ idx < Len(jobs)
  /\ ~AtMaxJobs
  /\ job_record' = jobs[idx + 1]
  /\ processed' = Append(processed, jobs[idx + 1])
  /\ pc' = "process_job"
  /\ attempt' = 1
  /\ requests' = 0
  /\ last' = NoAttempt
  /\ outputs' = [stage \in CallStages |-> NotCalled]
  /\ description' = PyNone
  /\ skills_data' = PyNone
  /\ hard_skills' = PyNone
  /\ spoken_languages' = PyNone
  /\ extra_data' = PyNone
  /\ skill_levels_with_ids' = PyNone
  /\ industry_mapping' = PyNone
  /\ final_record' = PyNone
  /\ UNCHANGED << self, llm_config, mention, mapped, text, returned, error, jobs, idx, max_jobs,
                  sink >>

\* The loop body, were it to hand the record to insert_job twice.
InsertJobTwice ==
  /\ pc = "returned"
  /\ idx < Len(jobs)
  /\ sink' = Append(Append(sink, final_record), final_record)
  /\ idx' = idx + 1
  /\ pc' = "for"
  /\ UNCHANGED << inputs, call, locals, error, jobs, max_jobs, processed >>

\* insert_job on the record process_job returned, and the step of the loop.
InsertJob ==
  /\ pc = "returned"
  /\ idx < Len(jobs)
  /\ sink' = Append(sink, final_record)
  /\ idx' = idx + 1
  /\ pc' = "for"
  /\ UNCHANGED << inputs, call, locals, error, jobs, max_jobs, processed >>

\* The break of the loop.
Break ==
  /\ pc = "for"
  /\ idx < Len(jobs)
  /\ AtMaxJobs
  /\ pc' = "done"
  /\ UNCHANGED << inputs, call, locals, error, run >>

\* The end of the loop behind the last row.
Finish ==
  /\ pc = "for"
  /\ idx >= Len(jobs)
  /\ pc' = "done"
  /\ UNCHANGED << inputs, call, locals, error, run >>

NextRun ==
  \/ ProcessJob
  \/ CleanDescription
  \/ CallLlm
  \/ ExtractSkillsReturn
  \/ EstimateSkillLevelsReturn
  \/ MapSkills
  \/ MapIndustry
  \/ CallLocalLlm
  \/ MapIndustryReturn
  \/ Merge
  \/ InsertJob
  \/ Break
  \/ Finish

SpecRun == InitRun /\ [][NextRun]_vars

(***************************************************************************)
(* clean_job_description on its own: one call on a raw text, and a second  *)
(* call on what the first returned.                                         *)
(***************************************************************************)
InitClean ==
  /\ self = JobExtractorInit(SkillsData)
  /\ llm_config = PyDict(LlmSection)
  /\ job_record = PyNone
  /\ mention = ""
  /\ mapped = Unmapped
  /\ attempt = 1
  /\ requests = 0
  /\ last = NoAttempt
  /\ outputs = [stage \in CallStages |-> NotCalled]
  /\ description = PyNone
  /\ skills_data = PyNone
  /\ hard_skills = PyNone
  /\ spoken_languages = PyNone
  /\ extra_data = PyNone
  /\ skill_levels_with_ids = PyNone
  /\ industry_mapping = PyNone
  /\ final_record = PyNone
  /\ error = NoError
  /\ jobs = << >>
  /\ idx = 0
  /\ max_jobs = PyNone
  /\ processed = << >>
  /\ sink = << >>
  /\ pc = "clean_job_description"
  /\ text \in RawTexts
  /\ returned = PyNone

CleanJobDescription ==
  /\ pc = "clean_job_description"
  /\ returned' = PyStr(clean_job_description(text))
  /\ pc' = "cleaned"
  /\ UNCHANGED << self, llm_config, job_record, mention, mapped, text, call, locals, error, run >>

CleanJobDescriptionAgain ==
  /\ pc = "cleaned"
  /\ text' = returned.v
  /\ returned' = PyStr(clean_job_description(returned.v))
  /\ pc' = "cleaned again"
  /\ UNCHANGED << self, llm_config, job_record, mention, mapped, call, locals, error, run >>

NextClean ==
  \/ CleanJobDescription
  \/ CleanJobDescriptionAgain

SpecClean == InitClean /\ [][NextClean]_vars

(***************************************************************************)
(* safe_json_parse on its own: one call on a backend text.                 *)
(***************************************************************************)
InitParse ==
  /\ self = JobExtractorInit(SkillsData)
  /\ llm_config = PyDict(LlmSection)
  /\ job_record = PyNone
  /\ mention = ""
  /\ mapped = Unmapped
  /\ attempt = 1
  /\ requests = 0
  /\ last = NoAttempt
  /\ outputs = [stage \in CallStages |-> NotCalled]
  /\ description = PyNone
  /\ skills_data = PyNone
  /\ hard_skills = PyNone
  /\ spoken_languages = PyNone
  /\ extra_data = PyNone
  /\ skill_levels_with_ids = PyNone
  /\ industry_mapping = PyNone
  /\ final_record = PyNone
  /\ error = NoError
  /\ jobs = << >>
  /\ idx = 0
  /\ max_jobs = PyNone
  /\ processed = << >>
  /\ sink = << >>
  /\ pc = "safe_json_parse"
  /\ text \in ParserTexts
  /\ returned = PyNone

SafeJsonParse ==
  /\ pc = "safe_json_parse"
  /\ returned' = safe_json_parse(text)
  /\ pc' = "parsed"
  /\ UNCHANGED << self, llm_config, job_record, mention, mapped, text, call, locals, error, run >>

NextParse ==
  \/ SafeJsonParse

SpecParse == InitParse /\ [][NextParse]_vars

(***************************************************************************)
(* The resolver on its own: one call of self.map_skill_with_synonyms_verbose *)
(* for a mention, over the synonym files and thresholds above.             *)
(***************************************************************************)
InitResolve ==
  /\ self \in { JobExtractorInit(skills) : skills \in ResolverData }
  /\ llm_config = PyDict(LlmSection)
  /\ job_record = EmptyDict
  /\ mention \in Mentions
  /\ mapped = Unmapped
  /\ InitLocals
  /\ NoRun

MapSkill ==
  /\ pc = "process_job"
  /\ mapped' = map_skill_wrapper(self, mention)
  /\ pc' = "returned"
  /\ UNCHANGED << self, llm_config, job_record, mention, call, locals, error, run, text, returned >>

\* A second call that meets the choices in another order, as it would were
\* all_synonyms rebuilt from an unordered collection between the calls.
MapSkillReordered ==
  /\ pc = "returned"
  /\ mapped' = map_skill_wrapper(
                  [self EXCEPT !.all_synonyms =
                     [n \in 1..Len(self.all_synonyms) |->
                        self.all_synonyms[Len(self.all_synonyms) + 1 - n]]],
                  mention)
  /\ pc' = "repeated"
  /\ UNCHANGED << self, llm_config, job_record, mention, call, locals, error, run, text, returned >>

\* A second call for the same mention, on the same extractor.
MapSkillAgain ==
  /\ pc = "returned"
  /\ mapped' = map_skill_wrapper(self, mention)
  /\ pc' = "repeated"
  /\ UNCHANGED << self, llm_config, job_record, mention, call, locals, error, run, text, returned >>

NextResolve ==
  \/ MapSkill
  \/ MapSkillAgain

SpecResolve == InitResolve /\ [][NextResolve]_vars

\* No text the backend sends in this model leaves the modelled grammar of
\* the parsers.
ParsesModelled ==
  \A stage \in {"extract_skills", "estimate_skill_levels"} :
    outputs[stage].ok =>
      With(safe_json_parse(outputs[stage].v),
           LAMBDA parse : IF parse.ok THEN TRUE ELSE parse.exc # "Unmodelled")

(***************************************************************************)
(* The properties.  A call of a stage is over when outputs[stage] is       *)
(* Returned(text) or Raised("RuntimeError"); skills_data and extra_data    *)
(* are None until the stage function that sets them has returned.          *)
(***************************************************************************)

\* C1: process_job returns a record for every record that carries an id and
\* every behaviour of the backend, and never ends in an unhandled exception.
ProcessJobNeverAborts == pc # "raised"

\* C2: safe_json_parse never raises: for every text a call of the backend
\* returned it returns a mapping.
ParserReturnsMapping ==
  \A stage \in {"extract_skills", "estimate_skill_levels"} :
    outputs[stage].ok =>
      With(safe_json_parse(outputs[stage].v),
           LAMBDA parse : IF parse.ok THEN IsDict(parse.v) ELSE FALSE)

\* C3: when the call of extract_skills ran out of attempts, or the parser
\* raised or returned no mapping for its text, extract_skills returns exactly
\* hard_skills = [], soft_skills = [], spoken_languages = [],
\* department = "null".
Stage2DefaultOnFailure ==
  (/\ skills_data # PyNone
   /\ IF ~outputs["extract_skills"].ok THEN TRUE
      ELSE With(safe_json_parse(outputs["extract_skills"].v),
                LAMBDA parse : IF parse.ok THEN ~IsDict(parse.v) ELSE TRUE))
  => skills_data = PyDict(<< KV("hard_skills", PyList(<< >>)),
                             KV("soft_skills", PyList(<< >>)),
                             KV("spoken_languages", PyList(<< >>)),
                             KV("department", PyStr("null")) >>)

\* C3, its case: extract_skills has returned for a text the parser raised on.
Stage2ParseFailed ==
  /\ skills_data # PyNone
  /\ outputs["extract_skills"].ok
  /\ ~safe_json_parse(outputs["extract_skills"].v).ok

\* C4: in every outcome of estimate_skill_levels, skill_levels has an entry
\* for every hard skill passed in and spoken_languages_levels one for every
\* spoken language passed in.
LevelKeysComplete ==
  extra_data # PyNone =>
    /\ IsDict(DictGet(extra_data, PyStr("skill_levels"), PyNone))
    /\ \A n \in 1..Len(hard_skills.v) :
         HasKey(DictGet(extra_data, PyStr("skill_levels"), PyNone), hard_skills.v[n])
    /\ IsDict(DictGet(extra_data, PyStr("spoken_languages_levels"), PyNone))
    /\ \A n \in 1..Len(spoken_languages.v) :
         HasKey(DictGet(extra_data, PyStr("spoken_languages_levels"), PyNone),
                spoken_languages.v[n])

\* C5: for the same inputs, extract_skills and estimate_skill_levels return
\* for a text that parses to the empty mapping what they return when call_llm
\* raises behind its last attempt.
EmptyMappingAsExhausted ==
  /\ (/\ skills_data # PyNone
      /\ outputs["extract_skills"].ok
      /\ safe_json_parse(outputs["extract_skills"].v) = Returned(EmptyDict))
     => skills_data = extract_skills(Raised("RuntimeError"))
  /\ (/\ extra_data # PyNone
      /\ outputs["estimate_skill_levels"].ok
      /\ safe_json_parse(outputs["estimate_skill_levels"].v) = Returned(EmptyDict))
     => extra_data = estimate_skill_levels(Raised("RuntimeError"), hard_skills,
                                           spoken_languages)

\* C6: when the call of a stage failed on all of its attempts, the stage
\* function returns its default and process_job goes on: behind
\* extract_skills with empty lists into estimate_skill_levels, behind
\* estimate_skill_levels with "unknown" for every skill and language through
\* step 3, and behind call_local_llm with unknown/unknown into the merge.
ExhaustionStaysInStage ==
  /\ (outputs["extract_skills"] = Raised("RuntimeError") /\ pc # "extract_skills")
     => /\ skills_data = PyDict(<< KV("hard_skills", PyList(<< >>)),
                                   KV("soft_skills", PyList(<< >>)),
                                   KV("spoken_languages", PyList(<< >>)),
                                   KV("department", PyStr("null")) >>)
        /\ hard_skills = PyList(<< >>)
        /\ spoken_languages = PyList(<< >>)
        /\ outputs["estimate_skill_levels"] # NotCalled
  /\ (outputs["estimate_skill_levels"] = Raised("RuntimeError")
      /\ pc # "estimate_skill_levels")
     => /\ extra_data =
             PyDict(<< KV("skill_levels", UnknownLevels(hard_skills.v, << >>)),
                       KV("spoken_languages_levels", UnknownLevels(spoken_languages.v, << >>)),
                       KV("contact_details",
                          PyDict(<< KV("name", PyStr("not provided")),
                                    KV("email", PyStr("not provided")),
                                    KV("phone_number", PyStr("not provided")) >>)),
                       KV("language_description", PyStr("not detected")) >>)
        /\ pc # "map_skills" => IsDict(skill_levels_with_ids)
  /\ (outputs["call_local_llm"] # NotCalled /\ pc # "call_local_llm"
      /\ last.cause # "returned")
     => /\ pc \in {"merge", "returned"}
        /\ industry_mapping = PyDict(<< KV("main_industry", PyStr("unknown")),
                                        KV("subindustry", PyStr("unknown")) >>)

\* C6, its case: estimate_skill_levels has returned for named skills behind a
\* call that ran out of attempts, and process_job has reached its end.
Stage3Exhausted ==
  /\ outputs["estimate_skill_levels"] = Raised("RuntimeError")
  /\ hard_skills # PyList(<< >>)
  /\ pc = "returned"

\* C7 as stated: call_llm issues one request per attempt and at most
\* max_retries of them, returns the text of the first attempt whose status is
\* success and whose text is not empty, and raises when all attempts failed.
FirstNonEmptyBodyReturned ==
  pc \in {"extract_skills", "estimate_skill_levels"} =>
    /\ requests = last.attempt
    /\ requests <= MaxRetriesOf(llm_config, PyInt("1")) \/ requests = 0
    /\ (last.status = 200 /\ last.body # "") => outputs[pc] = Returned(last.body)
    /\ outputs[pc] = Raised("RuntimeError")
         => (requests >= MaxRetriesOf(llm_config, PyInt("1")) /\ last.cause # "returned")

\* C7, amended: call_llm issues one request per attempt and at most
\* max_retries of them; an attempt ends the call with its text exactly when
\* its status is 200, its lines are read without an exception and the text
\* gathered from them holds a character that is not whitespace; no request
\* follows it; and the call raises RuntimeError exactly when max_retries
\* attempts (none, for max_retries < 1) have ended otherwise.
CallLlmContract ==
  /\ [](pc \in {"extract_skills", "estimate_skill_levels"} =>
          /\ requests = last.attempt
          /\ requests <= MaxRetriesOf(llm_config, PyInt("1")) \/ requests = 0
          /\ (last.status = 200 /\ Strip(last.body) # "") <=> last.cause = "returned"
          /\ last.cause = "returned" <=> outputs[pc] = Returned(last.body)
          /\ outputs[pc] = Raised("RuntimeError")
               <=> (requests >= MaxRetriesOf(llm_config, PyInt("1"))
                    /\ last.cause # "returned"))
  /\ [][(pc \in {"extract_skills", "estimate_skill_levels"} /\ outputs[pc].ok)
          => requests' \in {requests, 0}]_vars

\* C7, its case: an attempt of status 200 gathered a text that is blank, not
\* empty, and did not end the call.
BlankBodyRetried ==
  /\ pc \in {"extract_skills", "estimate_skill_levels"}
  /\ last.status = 200
  /\ last.body # ""
  /\ last.cause = "empty"

\* C8: behind every failed attempt of call_llm (transport failure, status
\* other than success, empty body) the client waits
\* min(base_delay * 2^(k-1), max_delay) + j seconds, 0 <= j <= jitter_bound,
\* k the number of the attempt, the three taken from the config.
BackoffWait ==
  (pc \in {"extract_skills", "estimate_skill_levels"}
   /\ last.cause \in {"transport", "status", "empty"})
  => LET base_delay   == IntOf(DictGet(llm_config, PyStr("base_delay"), PyInt("1")))
         max_delay    == IntOf(DictGet(llm_config, PyStr("max_delay"), PyInt("1")))
         jitter_bound == IntOf(DictGet(llm_config, PyStr("jitter_bound"), PyInt("0")))
         delay        == Min(base_delay * 2 ^ (last.attempt - 1), max_delay)
     IN  last.slept \in delay..(delay + jitter_bound)

\* C9: when the trimmed, lowercased mention is a key of the synonym index,
\* the result is that key's skill and its id, and extractOne is not called.
ExactMatchPrecedence ==
  (pc = "returned" /\ HasKey(self.synonym_to_skill, PyStr(Lower(Strip(mention)))))
  => /\ mapped.mapped_to
          = DictGet(self.synonym_to_skill, PyStr(Lower(Strip(mention))), PyNone)
     /\ mapped.ID = SkillId(self.skill_to_info, mapped.mapped_to.v)
     /\ ~mapped.fuzzy

\* C9, its case: the mention is a key, and the scorer rates a synonym of
\* another skill first.
ExactOverBetterFuzzy ==
  /\ pc = "returned"
  /\ HasKey(self.synonym_to_skill, PyStr(Lower(Strip(mention))))
  /\ DictGet(self.synonym_to_skill,
             PyStr(extractOne(Lower(Strip(mention)), self.all_synonyms).choice), PyNone)
       # mapped.mapped_to

\* C10: when the normalised mention is no key of the synonym index, the
\* result is the skill and id of a synonym of the highest score if that score
\* is at least fuzzy_threshold, and None/None if it is below or there is no
\* synonym.
FuzzyThreshold ==
  (pc = "returned" /\ ~HasKey(self.synonym_to_skill, PyStr(Lower(Strip(mention)))))
  => LET scores == [n \in 1..Len(self.all_synonyms) |->
                      token_sort_ratio(Lower(Strip(mention)), self.all_synonyms[n])]
         best   == { n \in 1..Len(self.all_synonyms) :
                       \A m \in 1..Len(self.all_synonyms) :
                         scores[m].num * scores[n].den <= scores[n].num * scores[m].den }
     IN  IF \E n \in best : scores[n].num >= self.fuzzy_threshold * scores[n].den
         THEN \E n \in best :
                /\ mapped.mapped_to
                     = DictGet(self.synonym_to_skill, PyStr(self.all_synonyms[n]), PyNone)
                /\ mapped.ID = SkillId(self.skill_to_info, mapped.mapped_to.v)
                /\ mapped.mapped_to # PyNone
         ELSE mapped.mapped_to = PyNone /\ mapped.ID = PyNone

\* C10, its case: the highest score equals the threshold, and the mention is
\* resolved.
FuzzyAtThreshold ==
  /\ pc = "returned"
  /\ mapped.fuzzy
  /\ mapped.mapped_to # PyNone
  /\ extractOne(Lower(Strip(mention)), self.all_synonyms).score.num
       = self.fuzzy_threshold * extractOne(Lower(Strip(mention)), self.all_synonyms).score.den

UnknownSkillIsNoMatch ==
  pc = "returned" =>
    With(IF HasKey(self.synonym_to_skill, PyStr(Lower(Strip(mention))))
         THEN DictGet(self.synonym_to_skill, PyStr(Lower(Strip(mention))), PyNone)
         ELSE With(extractOne(Lower(Strip(mention)), self.all_synonyms), LAMBDA best :
                IF best.found /\ best.score.num >= self.fuzzy_threshold * best.score.den
                THEN DictGet(self.synonym_to_skill, PyStr(best.choice), PyNone)
                ELSE PyNone),
         LAMBDA base_skill :
           (base_skill # PyNone /\ ~HasKey(self.skill_to_info, base_skill))
             => (mapped.mapped_to = PyNone /\ mapped.ID = PyNone))

\* C13: in a constructed JobExtractor every skill name of the synonyms input
\* is, lowercased, a key of synonym_to_skill that maps to that skill, also
\* when the skill's list does not hold its name; and no key of
\* synonym_to_skill occurs twice.
SkillIsOwnSynonym ==
  /\ \A n \in 1..Len(self.skill_synonyms.v) :
       /\ HasKey(self.synonym_to_skill, self.skill_synonyms.v[n].k)
       /\ DictGet(self.synonym_to_skill, self.skill_synonyms.v[n].k, PyNone)
            = self.skill_synonyms.v[n].k
  /\ \A m, n \in 1..Len(self.synonym_to_skill.v) :
       self.synonym_to_skill.v[m].k = self.synonym_to_skill.v[n].k => m = n

\* C14: when the company industry string is empty or holds whitespace only,
\* map_industry returns main_industry = "unknown", subindustry = "unknown",
\* and no request goes to the backend.
BlankIndustryShortCircuit ==
  With(DictGet(job_record, PyStr("company_industry"), PyStr("")), LAMBDA company_industry :
    (/\ pc \in {"call_local_llm", "merge", "returned"}
     /\ IsStr(company_industry)
     /\ Strip(company_industry.v) = "")
    => /\ pc # "call_local_llm"
       /\ outputs["call_local_llm"] = NotCalled
       /\ industry_mapping = PyDict(<< KV("main_industry", PyStr("unknown")),
                                       KV("subindustry", PyStr("unknown")) >>))

\* C14, its case: map_industry has returned for a string of whitespace.
BlankIndustryMapped ==
  /\ pc = "merge"
  /\ IsStr(DictGet(job_record, PyStr("company_industry"), PyStr("")))
  /\ Strip(DictGet(job_record, PyStr("company_industry"), PyStr("")).v) = ""

\* C15: when a main-industry or subindustry name of the mapping occurs in the
\* company industry string, case aside, map_industry returns that main
\* industry with subindustry "unknown", or that subindustry with the main
\* industry it belongs to, and no request goes to the backend; a request goes
\* out only when no name of the mapping occurs in the string.
KeywordShortCircuit ==
  With(DictGet(job_record, PyStr("company_industry"), PyStr("")), LAMBDA company_industry :
    IF pc \notin {"call_local_llm", "merge", "returned"} THEN TRUE
    ELSE IF ~IsStr(company_industry) THEN FALSE
    ELSE IF Strip(company_industry.v) = "" THEN TRUE
    ELSE With(Lower(company_industry.v), LAMBDA s :
      LET Occurs(name) ==
            With(Lower(name), LAMBDA low :
              \E i \in 0..(Len(s) - Len(low)) : SubSeq(s, i + 1, i + Len(low)) = low)
          Named(main, subindustry) ==
            industry_mapping = PyDict(<< KV("main_industry", PyStr(main)),
                                         KV("subindustry", PyStr(subindustry)) >>)
      IN  IF \E n \in 1..Len(IndustryMapping) :
               \/ Occurs(IndustryMapping[n].main)
               \/ \E k \in 1..Len(IndustryMapping[n].subs) :
                    Occurs(IndustryMapping[n].subs[k])
          THEN /\ pc # "call_local_llm"
               /\ outputs["call_local_llm"] = NotCalled
               /\ \E n \in 1..Len(IndustryMapping) :
                    \/ /\ Occurs(IndustryMapping[n].main)
                       /\ Named(IndustryMapping[n].main, "unknown")
                    \/ \E k \in 1..Len(IndustryMapping[n].subs) :
                         /\ Occurs(IndustryMapping[n].subs[k])
                         /\ Named(IndustryMapping[n].main, IndustryMapping[n].subs[k])
          ELSE TRUE))

\* C15, its case: map_industry has returned for a string that holds a name of
\* the mapping behind other words and in another case.
KeywordInsideString ==
  /\ pc = "merge"
  /\ outputs["call_local_llm"] = NotCalled
  /\ DictGet(job_record, PyStr("company_industry"), PyNone)
       = PyStr("Private HEALTH CARE, Hospitals")
  /\ industry_mapping = PyDict(<< KV("main_industry", PyStr("Health Care")),
                                  KV("subindustry", PyStr("unknown")) >>)

\* C16: in the returned record, for every (skill, level) pair of the skill
\* levels of estimate_skill_levels, hard_skills maps the string form of the
\* id the resolver returns for the skill to the level, or, when the resolver
\* returns no id, the skill string itself to the level.
EveryLevelKeyedByIdOrName ==
  pc = "returned" =>
    With(DictGet(final_record, PyStr("hard_skills"), PyNone), LAMBDA hard :
      \A n \in 1..Len(DictGet(extra_data, PyStr("skill_levels"), PyNone).v) :
        With(DictGet(extra_data, PyStr("skill_levels"), PyNone).v[n], LAMBDA pair :
          With(map_skill_wrapper(self, pair.k.v), LAMBDA resolved :
            IF resolved.ID # PyNone
            THEN /\ HasKey(hard, PyStr(Str(resolved.ID)))
                 /\ DictGet(hard, PyStr(Str(resolved.ID)), PyNone) = pair.val
            ELSE /\ HasKey(hard, pair.k)
                 /\ DictGet(hard, pair.k, PyNone) = pair.val)))

\* C17: every returned record holds, beside the passthrough fields,
\* hard_skills, spoken_languages, department, contact_details with exactly
\* the keys name, email and phone_number, language_description and
\* company_industry: a degraded record holds sentinels, never a missing key.
EnrichedFieldsPresent ==
  pc = "returned" =>
    /\ \A field \in {"hard_skills", "spoken_languages", "department", "contact_details",
                      "language_description", "company_industry"} :
         HasKey(final_record, PyStr(field))
    /\ With(DictGet(final_record, PyStr("contact_details"), PyNone), LAMBDA contact_details :
         /\ IsDict(contact_details)
         /\ { contact_details.v[n].k : n \in 1..Len(contact_details.v) }
              = { PyStr("name"), PyStr("email"), PyStr("phone_number") })

\* C18: in every returned record company_industry is the string
\* "<main_industry>: <subindustry>" of the industry stage's result, with
\* "unknown" in the place of a main_industry or subindustry that is missing,
\* null or empty.
IndustryLabelFormat ==
  pc = "returned" =>
    LET Part(key) ==
          With(DictGet(industry_mapping, PyStr(key), PyNone), LAMBDA x :
            IF x.t = "none" THEN "unknown"
            ELSE IF x.t = "str" THEN (IF x.v = "" THEN "unknown" ELSE x.v)
            ELSE Str(x))
    IN  DictGet(final_record, PyStr("company_industry"), PyNone)
          = PyStr(Part("main_industry") \o ": " \o Part("subindustry"))

\* C18, its case: a record was returned for an industry result whose
\* main_industry is null and whose subindustry is empty.
NullAndEmptyIndustry ==
  /\ pc = "returned"
  /\ HasKey(industry_mapping, PyStr("main_industry"))
  /\ DictGet(industry_mapping, PyStr("main_industry"), PyStr("")) = PyNone
  /\ DictGet(industry_mapping, PyStr("subindustry"), PyNone) = PyStr("")

\* C19: process_job does not change its input record, and the returned record
\* holds every passthrough field (id, title, job_function, job_level,
\* job_type, is_remote, location, date_posted, job_url, site, company,
\* company_url) with the value the input holds for it (None for a field the
\* input lacks).
PassthroughVerbatim ==
  /\ [](pc = "returned" =>
          \A field \in {"id", "title", "job_function", "job_level", "job_type", "is_remote",
                         "location", "date_posted", "job_url", "site", "company",
                         "company_url"} :
            /\ HasKey(final_record, PyStr(field))
            /\ DictGet(final_record, PyStr(field), PyStr(""))
                 = DictGet(job_record, PyStr(field), PyNone))
  /\ [][job_record' = job_record]_vars

\* C19, its case: a record was returned for an input that holds a title.
ReturnedWithTitle ==
  /\ pc = "returned"
  /\ DictGet(job_record, PyStr("title"), PyNone) = PyStr("Data Engineer")
  /\ final_record # PyNone

\* C20: a fetched row that has no id is skipped: process_job is never called
\* on it, and no record derived from it is handed to insert_job.
RowWithoutIdSkipped ==
  /\ \A n \in 1..Len(processed) : DictGet(processed[n], PyStr("id"), PyNone) # PyNone
  /\ \A n \in 1..Len(sink) : DictGet(sink[n], PyStr("id"), PyNone) # PyNone

\* C21: when the run has ended, exactly one record has been handed to
\* insert_job for each fetched row that has an id (here: for each such row
\* among those max_jobs lets the loop reach).
OneRecordPerValidRow ==
  pc \in {"done", "raised"} =>
    \A n \in 1..(IF max_jobs = PyNone THEN Len(jobs) ELSE Min(Len(jobs), IntOf(max_jobs))) :
      DictGet(jobs[n], PyStr("id"), PyNone) # PyNone =>
        Cardinality({ k \in 1..Len(sink) :
                      DictGet(sink[k], PyStr("id"), PyNone) = DictGet(jobs[n], PyStr("id"), PyNone) }) = 1

\* C22: clean_job_description is idempotent: a second call on what the first
\* returned returns the same text.
CleanIdempotent == pc = "cleaned again" => returned.v = text

\* C23: the text clean_job_description returns holds no tab and no carriage
\* return, no three line feeds in a row, no line with whitespace at either
\* end, no two spaces in a row, and no whitespace at either end.
CleanedTextShape ==
  pc = "cleaned" =>
    /\ Find(returned.v, "\t") = 0
    /\ Find(returned.v, "\r") = 0
    /\ Find(returned.v, "\n\n\n") = 0
    /\ Find(returned.v, "  ") = 0
    /\ Strip(returned.v) = returned.v
    /\ \A k \in 1..Len(returned.v) :
         At(returned.v, k) = "\n" => /\ ~IsSpace(At(returned.v, k - 1)) \/ At(returned.v, k - 1) = "\n"
                                     /\ ~IsSpace(At(returned.v, k + 1)) \/ At(returned.v, k + 1) = "\n"

\* C24: for a text that is a valid JSON object behind prose, in front of a
\* "// ..." comment and with commas immediately before closing brackets,
\* safe_json_parse returns what the strict parse of the object returns.
RepairsAlteredObject ==
  pc = "parsed" =>
    \A altered \in AlteredTexts :
      altered.raw = text => returned = Returned(json_loads(altered.object).v)

\* C28: for a text that is exactly a valid JSON object, safe_json_parse
\* returns what the strict parse of the text returns.
ExactObjectAsStrictParse ==
  (pc = "parsed" /\ text \in ExactObjects) => returned = Returned(json_loads(text).v)

\* C25 as stated: industry classification comes before taxonomy resolution,
\* so the resolved skill levels exist only once the industry is classified.
IndustryBeforeResolution == skill_levels_with_ids # PyNone => industry_mapping # PyNone

\* C25: the stages of process_job run in the order clean, extract_skills,
\* estimate_skill_levels, taxonomy resolution, map_industry, merge: each
\* starts when the one before it has completed, and a backend request is
\* issued by the stage process_job stands in, all earlier calls being over.
StagesInOrder ==
  /\ [](/\ (outputs["extract_skills"] # NotCalled) => (description # PyNone)
        /\ (outputs["estimate_skill_levels"] # NotCalled) =>
             (Over("extract_skills") /\ hard_skills # PyNone /\ spoken_languages # PyNone)
        /\ (skill_levels_with_ids # PyNone) =>
             (Over("estimate_skill_levels") /\ extra_data # PyNone)
        /\ (outputs["call_local_llm"] # NotCalled \/ industry_mapping # PyNone) =>
             (skill_levels_with_ids # PyNone)
        /\ (final_record # PyNone) =>
             (industry_mapping # PyNone
              /\ (outputs["call_local_llm"] = NotCalled \/ Over("call_local_llm"))))
  /\ [][(requests' = requests + 1) =>
          (/\ pc \in CallStages
           /\ pc' = pc
           /\ ~Over(pc)
           /\ \A stage \in CallStages \ {pc} : outputs'[stage] = outputs[stage])]_vars

\* C25: process_job returned after requests of all three calls.
ReturnedAfterThreeCalls ==
  /\ pc = "returned"
  /\ \A stage \in CallStages : outputs[stage] # NotCalled /\ outputs[stage].ok

\* C26: in the run loop insert_job is called once for each record process_job
\* returned, with that record as process_job built it, after process_job has
\* returned and before process_job is called on the next row.
WrittenOncePerRecord ==
  /\ [](/\ Len(sink) <= Len(processed)
        /\ Len(processed) <= Len(sink) + 1
        /\ (pc = "for" \/ pc = "done") => (Len(sink) = Len(processed))
        /\ \A n \in 1..Len(sink) :
             /\ DictGet(sink[n], PyStr("id"), PyNone) = DictGet(processed[n], PyStr("id"), PyNone)
             /\ processed[n] = jobs[n])
  /\ [][/\ (sink' # sink) => (pc = "returned" /\ sink' = Append(sink, final_record))
        /\ (pc = "returned") => (sink' = Append(sink, final_record) /\ pc' = "for")
        /\ (processed' # processed) =>
             (pc = "for" /\ Len(sink) = Len(processed) /\ sink' = sink)]_vars

\* C26: a run that ended after two records were processed and written.
TwoRecordsWritten == pc = "done" /\ Len(sink) = 2

\* C27: the text a successful attempt returns is, in the order of arrival, the
\* "response" of each line that is a JSON object and the text of each line
\* that is no JSON; an empty line adds nothing.
ChunksConcatenated ==
  last.cause = "returned" =>
    /\ (pc \in CallStages) => (outputs[pc] = Returned(last.body))
    /\ last.body =
         Concat([n \in 1..Len(last.chunks) |->
                   IF last.chunks[n] = "" THEN ""
                   ELSE With(json_loads(last.chunks[n]), LAMBDA json_chunk :
                          IF json_chunk.ok
                          THEN DictGet(json_chunk.v, PyStr("response"), PyStr("")).v
                          ELSE last.chunks[n])])

\* C27: an attempt returned the text of a reply that holds an empty line, a
\* line that is no JSON and a line that is a JSON object.
MixedLinesReturned ==
  /\ last.cause = "returned"
  /\ \E n \in 1..Len(last.chunks) : last.chunks[n] = ""
  /\ \E n \in 1..Len(last.chunks) : last.chunks[n] # "" /\ ~json_loads(last.chunks[n]).ok
  /\ \E n \in 1..Len(last.chunks) : json_loads(last.chunks[n]).ok

\* C29: the hard_skills mapping of the returned record has as many entries as
\* the skill levels of estimate_skill_levels: no pair is lost in step 3.
NoLevelLost ==
  pc = "returned" =>
    Len(DictGet(final_record, PyStr("hard_skills"), PyNone).v)
      = Len(DictGet(extra_data, PyStr("skill_levels"), PyNone).v)

\* C30: for one record, extract_skills and estimate_skill_levels each issue
\* at most max_retries requests (default 1) and the industry client at most
\* its max_retries (default 2); the industry client is called only for an
\* industry string that is not blank and not matched locally, so no industry
\* request is issued otherwise; a call that is over issues no
\* further request; and the industry client, all its attempts failed, returns
\* "", which map_industry turns into unknown / unknown.
RequestsBounded ==
  /\ [](/\ (pc \in {"extract_skills", "estimate_skill_levels"}) =>
             (requests <= MaxRetriesOf(llm_config, PyInt("1")))
        /\ (pc = "call_local_llm") => (requests <= MaxRetriesOf(llm_config, PyInt("2")))
        /\ (outputs["call_local_llm"].ok) \/ (outputs["call_local_llm"].exc # "RuntimeError")
        /\ (pc = "call_local_llm" /\ Over(pc) /\ last.cause # "returned") =>
             (/\ outputs[pc] = Returned("")
              /\ requests = MaxRetriesOf(llm_config, PyInt("2")))
        /\ (pc \in {"merge", "returned"} /\ outputs["call_local_llm"] = Returned("")) =>
             (industry_mapping = UnknownIndustry))
  /\ [][/\ (requests' # requests) =>
             (\/ requests' = requests + 1 /\ pc \in CallStages /\ pc' = pc /\ ~Over(pc)
              \/ requests' = 0 /\ pc' \in CallStages /\ pc' # pc /\ outputs[pc'] = NotCalled)
        /\ \A stage \in CallStages : Over(stage) => (outputs'[stage] = outputs[stage])
        /\ (outputs["call_local_llm"] = NotCalled /\ outputs'["call_local_llm"] # NotCalled) =>
             With(DictGet(job_record, PyStr("company_industry"), PyStr("")),
                  LAMBDA company_industry :
               IF ~IsStr(company_industry) THEN FALSE
               ELSE IF Strip(company_industry.v) = "" THEN FALSE
               ELSE ~LocalIndustry(IndustryMapping, company_industry.v).found)]_vars

\* C30: the industry client gave up after two failed attempts, the default,
\* and the record was returned with an unknown industry.
IndustryClientExhausted ==
  /\ pc = "returned"
  /\ ~HasKey(llm_config, PyStr("max_retries"))
  /\ outputs["call_local_llm"] = Returned("")
  /\ requests = 2
  /\ last.cause # "returned"
  /\ industry_mapping = UnknownIndustry

====
